---- MODULE Spec2Model ----
(***************************************************************************)
(* CertManager: the CSR workflow engine (csrController), the PowerShell    *)
(* command gateway (powershellService) and the server operations that     *)
(* reach the gateway (serverController, certificateService.syncCA).       *)
(*                                                                         *)
(* Text that a validator scans is a sequence of one-character strings.     *)
(* A fixed message of the code is a one-element sequence holding the whole *)
(* message.  Dates are the token Now (set) or NoDate (unset).              *)
(***************************************************************************)
EXTENDS Integers, Sequences, FiniteSets, TLC

VARIABLES csr, servers, cas, certs, last, clock, outbox, ps, settings, auth, run

vars == <<csr, servers, cas, certs, last, clock, outbox, ps, settings, auth, run>>

\* ------------------------------------------------------------------ bounds
MaxSANs == 1

\* --------------------------------------------------------------- alphabet
Lower == {"a","b","c","d","e","f","g","h","i","j","k","l","m",
          "n","o","p","q","r","s","t","u","v","w","x","y","z"}
Upper == {"A","B","C","D","E","F","G","H","I","J","K","L","M",
          "N","O","P","Q","R","S","T","U","V","W","X","Y","Z"}
Digit == {"0","1","2","3","4","5","6","7","8","9"}
AlNum == Lower \cup Upper \cup Digit
Whitespace == {" ", "\n", "\t", "\r"}

AllIn(s, class) == \A i \in 1..Len(s) : s[i] \in class

NoText == << >>
Truthy(s) == s # NoText

\* String.prototype.trim: drop leading and trailing whitespace
RECURSIVE TrimLeft(_)
TrimLeft(s) == IF s # << >> /\ Head(s) \in Whitespace THEN TrimLeft(Tail(s)) ELSE s
RECURSIVE TrimRight(_)
TrimRight(s) ==
  IF s # << >> /\ s[Len(s)] \in Whitespace
  THEN TrimRight(SubSeq(s, 1, Len(s) - 1)) ELSE s
Trim(s) == TrimRight(TrimLeft(s))

\* ------------------------------------------------------------- validators
SubjectMaxLen == 200
SANMaxLen == 253
HostnameMaxLen == 253
ConfigStringMaxLen == 500

SAFE_SUBJECT_REGEX == AlNum \cup {" ", ".", ",", "_", "@", "(", ")", "-"}
SAFE_HASH_ALGORITHMS == {"SHA256", "SHA384", "SHA512", "SHA1"}
VALID_KEY_SIZES == {2048, 4096}

\* variant: the single quote is in the character class
validateSubjectField_AllowsQuote(value) ==
  /\ Len(value) >= 1
  /\ AllIn(value, SAFE_SUBJECT_REGEX \cup {"'"})
  /\ Len(value) <= SubjectMaxLen

validateSubjectField(value) ==
  /\ Len(value) >= 1
  /\ AllIn(value, SAFE_SUBJECT_REGEX)
  /\ Len(value) <= SubjectMaxLen

\* ^[a-zA-Z0-9.*@_-]+(\.[a-zA-Z0-9*_-]+)*$ : the first group may take the
\* whole string, the dotted tail groups use a subset of its class.
SANHeadClass == AlNum \cup {".", "*", "@", "_", "-"}
SANTailClass == AlNum \cup {"*", "_", "-"}
RECURSIVE SANTail(_)
SANTail(s) ==
  \/ s = << >>
  \/ /\ Len(s) >= 2
     /\ s[1] = "."
     /\ \E k \in 2..Len(s) :
          /\ AllIn(SubSeq(s, 2, k), SANTailClass)
          /\ SANTail(SubSeq(s, k + 1, Len(s)))
validateSAN(san) ==
  /\ \E k \in 1..Len(san) :
       /\ AllIn(SubSeq(san, 1, k), SANHeadClass)
       /\ SANTail(SubSeq(san, k + 1, Len(san)))
  /\ Len(san) <= SANMaxLen

SAFE_HOSTNAME_REGEX == AlNum \cup {".", "_", "-"}
validateHostname(hostname) ==
  /\ Len(hostname) >= 1
  /\ AllIn(hostname, SAFE_HOSTNAME_REGEX)
  /\ Len(hostname) <= HostnameMaxLen

SAFE_CONFIG_STRING_REGEX == AlNum \cup {".", "_", "\\", "-"}
validateConfigString(value) ==
  /\ Len(value) >= 1
  /\ AllIn(value, SAFE_CONFIG_STRING_REGEX)
  /\ Len(value) <= ConfigStringMaxLen

TemplateClass == AlNum \cup {" ", "_", "-"}
validateTemplate(template) == Len(template) >= 1 /\ AllIn(template, TemplateClass)

ThumbprintClass == {"a","b","c","d","e","f","A","B","C","D","E","F"} \cup Digit
validateThumbprint(thumbprint) == Len(thumbprint) >= 1 /\ AllIn(thumbprint, ThumbprintClass)

\* The validator the code applies to a value of a given kind before the value
\* is placed on a command line; "none" when the code applies no validator.
Passes(validator, value) ==
  CASE validator = "subject"    -> validateSubjectField(value)
    [] validator = "san"        -> validateSAN(value)
    [] validator = "hostname"   -> validateHostname(value)
    [] validator = "config"     -> validateConfigString(value)
    [] validator = "template"   -> validateTemplate(value)
    [] validator = "thumbprint" -> validateThumbprint(value)
    [] OTHER                    -> FALSE

Arg(kind, validator, value) == [kind |-> kind, validator |-> validator, value |-> value]

\* ---------------------------------------------------------------- gateway
Lit(m) == << m >>

SCRIPTS_DIR == << "server", "scripts" >>
ALLOWED_SCRIPTS == { << "Bind-IISCertificate.ps1" >>, << "Get-CAInfo.ps1" >>,
                     << "Get-IssuedCertificates.ps1" >>, << "Install-Certificate.ps1" >>,
                     << "New-CertificateRequest.ps1" >>, << "Submit-CertificateRequest.ps1" >> }

\* path.resolve over path segments: ".." drops the segment before it
RECURSIVE ResolvePath(_, _)
ResolvePath(base, segs) ==
  IF segs = << >> THEN base
  ELSE IF Head(segs) = ".."
       THEN ResolvePath(IF base = << >> THEN base ELSE SubSeq(base, 1, Len(base) - 1), Tail(segs))
       ELSE ResolvePath(Append(base, Head(segs)), Tail(segs))
StartsWith(path, prefix) ==
  Len(path) >= Len(prefix) /\ SubSeq(path, 1, Len(prefix)) = prefix

SAFE_PARAM_KEY_REGEX(key) ==
  /\ Len(key) >= 1
  /\ key[1] \in Lower \cup Upper
  /\ AllIn(key, AlNum)

\* what the spawned process does: exit code 0, another exit code, killed at
\* the timeout (close with code null), or the spawn itself fails
Proc(kind, stdout, stderr) == [kind |-> kind, stdout |-> stdout, stderr |-> stderr]
ProcOutcomes ==
  { Proc("exit0", << "P" >>, << >>),
    Proc("exit0", << " ", "Q", "\n" >>, << "E" >>),
    Proc("exit0", << " " >>, << >>),
    Proc("exit1", << "P" >>, << "E", "\n" >>),
    Proc("exit1", << >>, << >>),
    Proc("timeout", << >>, << "E" >>),
    Proc("spawnError", << >>, << >>) }

\* spawned counts the OS processes started, cmd holds the request-supplied
\* values on the command lines handed to them, threw marks a rejected promise
Result(success, output, error) ==
  [success |-> success, output |-> output, error |-> error,
   called |-> TRUE, spawned |-> 0, threw |-> FALSE, cmd |-> {}]
NoCall == [Result(FALSE, NoText, NoText) EXCEPT !.called = FALSE]

\* a parameter is [key, type, value]; type is the typeof of the value, with
\* "nonfinite" for a number that is NaN or an infinity
ParamThrows(p) ==
  \/ ~SAFE_PARAM_KEY_REGEX(p.key)
  \/ p.type = "nonfinite"

\* variant: remoteComputer goes into Invoke-Command unchecked
executePowerShell_NoRemoteCheck(options, proc) ==
  IF options.scriptFile # << >> /\ options.scriptFile \notin ALLOWED_SCRIPTS
    THEN Result(FALSE, NoText, Lit("Script not allowed"))
  ELSE IF options.scriptFile # << >>
          /\ ~StartsWith(ResolvePath(SCRIPTS_DIR, options.scriptFile), SCRIPTS_DIR)
    THEN Result(FALSE, NoText, Lit("Invalid script path"))
  ELSE IF options.scriptFile = << >> /\ ~options.script
    THEN Result(FALSE, NoText, Lit("No script or scriptFile provided"))
  ELSE IF \E i \in 1..Len(options.parameters) : ParamThrows(options.parameters[i])
    THEN [Result(FALSE, NoText, Lit("Invalid parameter")) EXCEPT !.threw = TRUE]
  ELSE [ success |-> proc.kind = "exit0",
         output  |-> IF proc.kind = "spawnError" THEN NoText ELSE Trim(proc.stdout),
         error   |-> CASE proc.kind = "exit0"      -> NoText
                       [] proc.kind = "spawnError" -> Lit("spawn powershell.exe ENOENT")
                       [] OTHER                    -> Trim(proc.stderr),
         called |-> TRUE, spawned |-> 1, threw |-> FALSE, cmd |-> options.tainted ]

\* variant: the close handler tests !code instead of code === 0
executePowerShell_NullCodeSucceeds(options, proc) ==
  IF options.scriptFile # << >> /\ options.scriptFile \notin ALLOWED_SCRIPTS
    THEN Result(FALSE, NoText, Lit("Script not allowed"))
  ELSE IF options.scriptFile # << >>
          /\ ~StartsWith(ResolvePath(SCRIPTS_DIR, options.scriptFile), SCRIPTS_DIR)
    THEN Result(FALSE, NoText, Lit("Invalid script path"))
  ELSE IF options.scriptFile = << >> /\ ~options.script
    THEN Result(FALSE, NoText, Lit("No script or scriptFile provided"))
  ELSE IF \E i \in 1..Len(options.parameters) : ParamThrows(options.parameters[i])
    THEN [Result(FALSE, NoText, Lit("Invalid parameter")) EXCEPT !.threw = TRUE]
  ELSE IF options.remoteComputer # NoText /\ ~validateHostname(options.remoteComputer)
    THEN Result(FALSE, NoText, Lit("Invalid remote computer name"))
  ELSE [ success |-> proc.kind \in {"exit0", "timeout"},
         output  |-> IF proc.kind = "spawnError" THEN NoText ELSE Trim(proc.stdout),
         error   |-> CASE proc.kind = "exit0"      -> NoText
                       [] proc.kind = "spawnError" -> Lit("spawn powershell.exe ENOENT")
                       [] OTHER                    -> Trim(proc.stderr),
         called |-> TRUE, spawned |-> 1, threw |-> FALSE, cmd |-> options.tainted ]

\* options: [script, scriptFile, parameters, remoteComputer, tainted];
\* script is TRUE when an inline script is given, scriptFile is << >> when
\* absent, tainted is the set of request-supplied values the caller has put
\* into the script text or the parameters.
executePowerShell(options, proc) ==
  IF options.scriptFile # << >> /\ options.scriptFile \notin ALLOWED_SCRIPTS
    THEN Result(FALSE, NoText, Lit("Script not allowed"))
  ELSE IF options.scriptFile # << >>
          /\ ~StartsWith(ResolvePath(SCRIPTS_DIR, options.scriptFile), SCRIPTS_DIR)
    THEN Result(FALSE, NoText, Lit("Invalid script path"))
  ELSE IF options.scriptFile = << >> /\ ~options.script
    THEN Result(FALSE, NoText, Lit("No script or scriptFile provided"))
  ELSE IF \E i \in 1..Len(options.parameters) : ParamThrows(options.parameters[i])
    THEN [Result(FALSE, NoText, Lit("Invalid parameter")) EXCEPT !.threw = TRUE]
  ELSE IF options.remoteComputer # NoText /\ ~validateHostname(options.remoteComputer)
    THEN Result(FALSE, NoText, Lit("Invalid remote computer name"))
  ELSE [ success |-> proc.kind = "exit0",
         output  |-> IF proc.kind = "spawnError" THEN NoText ELSE Trim(proc.stdout),
         error   |-> CASE proc.kind = "exit0"      -> NoText
                       [] proc.kind = "spawnError" -> Lit("spawn powershell.exe ENOENT")
                       [] OTHER                    -> Trim(proc.stderr),
         called |-> TRUE, spawned |-> 1, threw |-> FALSE, cmd |-> options.tainted ]

Param(key, type, value) == [key |-> key, type |-> type, value |-> value]

submitCSR(csrPath, configString, template, proc) ==
  IF ~validateConfigString(configString)
    THEN Result(FALSE, NoText, Lit("Invalid CA config string"))
  ELSE IF ~validateTemplate(template)
    THEN Result(FALSE, NoText, Lit("Invalid template name"))
  ELSE executePowerShell(
         [script |-> FALSE, scriptFile |-> << "Submit-CertificateRequest.ps1" >>,
          parameters |-> << Param(<<"C","S","R","P","a","t","h">>, "string", csrPath),
                            Param(<<"C","o","n","f","i","g","S","t","r","i","n","g">>, "string", configString),
                            Param(<<"T","e","m","p","l","a","t","e">>, "string", template) >>,
          remoteComputer |-> NoText,
          tainted |-> { Arg("configString", "config", configString),
                        Arg("template", "template", template) }], proc)

\* --------------------------------------------------------- reference data
NoId == "none"
NoDate == "NoDate"
Now == "Now"
Localhost == << "l","o","c","a","l","h","o","s","t" >>

GoodFqdn == << "w", "1", ".", "x" >>
BadFqdn == << "w", ";", "x" >>
GoodConfig == << "h", "\\", "C", "A" >>
BadConfig == << "h", "'", ";" >>

InitServers ==
  [id \in {"s1", "s2", "s3"} |->
     [fqdn |-> IF id = "s2" THEN BadFqdn ELSE IF id = "s1" THEN GoodFqdn ELSE Localhost,
      roles |-> IF id = "s3" THEN {} ELSE {"IIS"},
      status |-> "unknown",
      winRMEnabled |-> FALSE,
      certificates |-> {}]]
InitCAs ==
  [id \in {"ca1", "ca2", "ca3"} |->
     [configString |-> IF id = "ca2" THEN BadConfig ELSE GoodConfig,
      syncEnabled |-> id # "ca3",
      lastSyncedAt |-> NoDate]]

ServerRefs == {NoId, "s1", "s2"}
CARefs == {NoId, "ca1", "ca2", "caX"}

\* populate(): a reference resolves when it is set and its document exists;
\* otherwise the populated path is null
Resolves(store, ref) == ref \in DOMAIN store

\* ------------------------------------------------------- CSRRequest model
StepNames == << "Generate CSR", "Submit to CA", "Install Certificate" >>
StatusEnum == {"draft", "pending", "submitted", "issued", "failed", "cancelled"}
StepStatusEnum == {"pending", "completed", "failed"}
KeyAlgorithmEnum == {"RSA", "ECDSA"}
HashAlgorithmEnum == {"SHA256", "SHA384", "SHA512"}
KeySizeEnum == {2048, 4096}

GoodCN == << "t", ".", "c", "o", "m" >>
BadCN == << "t", "\"", ";" >>
LongCN == [i \in 1..(SubjectMaxLen + 1) |-> "a"]

EmptySubject == [organization |-> NoText, organizationalUnit |-> NoText,
                 locality |-> NoText, state |-> NoText, country |-> NoText]
GoodSubject == [EmptySubject EXCEPT !.organization = << "A", "c", "m", "e", ",", " ", "I" >>,
                                    !.country = << "U", "S" >>]
BadSubject == [EmptySubject EXCEPT !.locality = << "L", "$", "(", ")" >>]
Subjects == {EmptySubject, GoodSubject, BadSubject}

GoodSAN == << "*", ".", "t", ".", "c", "o", "m" >>
BadSAN == << "t", " ", ";" >>
SeqsUpTo(S, n) == UNION {[1..k -> S] : k \in 0..n}
SanLists == SeqsUpTo({GoodSAN, BadSAN}, MaxSANs)

GoodTemplate == << "W", "e", "b", " ", "2" >>
BadTemplate == << "W", "'", "|" >>
DefaultTemplate == << "W","e","b","S","e","r","v","e","r" >>

\* mongoose schema validation run by create() and save()
SchemaValid(doc) ==
  /\ Truthy(doc.commonName)
  /\ doc.keySize \in KeySizeEnum
  /\ doc.keyAlgorithm \in KeyAlgorithmEnum
  /\ doc.hashAlgorithm \in HashAlgorithmEnum
  /\ doc.status \in StatusEnum
  /\ doc.requestedBy # ""
  /\ \A i \in 1..Len(doc.workflowSteps) : doc.workflowSteps[i].status \in StepStatusEnum

FirstStep(steps, stepName) ==
  IF \E i \in 1..Len(steps) : steps[i].step = stepName
  THEN CHOOSE i \in 1..Len(steps) :
         steps[i].step = stepName /\ \A j \in 1..(i - 1) : steps[j].step # stepName
  ELSE 0

\* variant: the updated step is moved to the end of the list
updateWorkflowStep_MovesStep(doc, stepName, status, error) ==
  LET i == FirstStep(doc.workflowSteps, stepName)
      steps == doc.workflowSteps
  IN IF i = 0 THEN doc
     ELSE [doc EXCEPT !.workflowSteps =
             SubSeq(steps, 1, i - 1) \o SubSeq(steps, i + 1, Len(steps))
               \o << [steps[i] EXCEPT !.status = status] >>]

updateWorkflowStep(doc, stepName, status, error) ==
  LET i == FirstStep(doc.workflowSteps, stepName) IN
  IF i = 0 THEN doc
  ELSE [doc EXCEPT !.workflowSteps[i] =
          [@ EXCEPT !.status = status,
                    !.completedAt = IF status = "completed" THEN Now ELSE @,
                    !.error = IF Truthy(error) THEN error ELSE @]]

StepStatus(doc, stepName) == doc.workflowSteps[FirstStep(doc.workflowSteps, stepName)].status

\* last: the most recent request and its response (status code, error text)
\* together with the result of the gateway call the handler made, if any
Respond(op, req, code, error, result) ==
  [op |-> op, req |-> req, code |-> code, error |-> error, result |-> result]

Field(body, f, default) == IF f \in DOMAIN body THEN body[f] ELSE default

\* The model follows one CSR document from its creation to its deletion:
\* every handler addresses one document by id and touches no other.  csr is
\* the collection: empty, or holding that document.
TheId == "c1"
Found(id) == csr # << >> /\ id = TheId
Doc == csr[1]

Usernames == {"alice"}

NewSteps == [i \in 1..3 |-> [step |-> StepNames[i], status |-> "pending",
                             completedAt |-> NoDate, error |-> NoText]]

CreateBodies ==
  { [keySize |-> 4096],
    [commonName |-> GoodCN],
    [commonName |-> BadCN, targetCAId |-> "ca1", targetServerId |-> "s1"],
    [commonName |-> GoodCN, hashAlgorithm |-> "SHA1"],
    [commonName |-> GoodCN, targetCAId |-> "caX"],
    [commonName |-> GoodCN, targetServerId |-> "sX"],
    [commonName |-> GoodCN, status |-> "submitted", csrPEM |-> << "P" >>] }

NewDoc(body, user) ==
  [ commonName |-> body.commonName,
    subjectAlternativeNames |-> Field(body, "subjectAlternativeNames", << >>),
    subject |-> Field(body, "subject", EmptySubject),
    keySize |-> Field(body, "keySize", 2048),
    keyAlgorithm |-> Field(body, "keyAlgorithm", "RSA"),
    hashAlgorithm |-> Field(body, "hashAlgorithm", "SHA256"),
    templateName |-> Field(body, "templateName", NoText),
    targetCAId |-> Field(body, "targetCAId", NoId),
    targetServerId |-> Field(body, "targetServerId", NoId),
    status |-> "draft",
    csrPEM |-> NoText,
    privateKeyLocation |-> NoText,
    requestedBy |-> user,
    requestedAt |-> Now,
    processedAt |-> NoDate,
    errorMessage |-> NoText,
    workflowSteps |-> NewSteps ]

createCSR(body, user) ==
  /\ csr = << >>
  /\ UNCHANGED <<servers, cas, certs, clock, outbox, ps, settings, auth, run>>
  /\ LET R(code, error) == Respond("create", body, code, error, NoCall) IN
     IF ~("commonName" \in DOMAIN body /\ Truthy(body.commonName))
       THEN csr' = csr /\ last' = R(400, "Common name is required")
     ELSE IF Field(body, "targetCAId", NoId) # NoId /\ ~Resolves(cas, body.targetCAId)
       THEN csr' = csr /\ last' = R(400, "Invalid certificate authority")
     ELSE IF Field(body, "targetServerId", NoId) # NoId /\ ~Resolves(servers, body.targetServerId)
       THEN csr' = csr /\ last' = R(400, "Invalid target server")
     ELSE IF ~SchemaValid(NewDoc(body, user))
       THEN csr' = csr /\ last' = R(500, "Failed to create CSR request")
     ELSE csr' = << NewDoc(body, user) >> /\ last' = R(201, "")

allowedFields == {"commonName", "subjectAlternativeNames", "subject", "keySize", "keyAlgorithm",
                  "hashAlgorithm", "templateName", "targetCAId", "targetServerId"}

UpdateBodies ==
     { [commonName |-> v] : v \in {GoodCN, BadCN, LongCN, NoText} }
  \cup { [subjectAlternativeNames |-> v] : v \in SanLists }
  \cup { [subject |-> v] : v \in Subjects }
  \cup { [keySize |-> v] : v \in {2048, 1024} }
  \cup { [hashAlgorithm |-> v] : v \in {"SHA256", "SHA1"} }
  \cup { [templateName |-> v] : v \in {NoText, GoodTemplate, BadTemplate} }
  \cup { [targetCAId |-> v] : v \in CARefs }
  \cup { [targetServerId |-> v] : v \in ServerRefs }
  \cup { [commonName |-> GoodCN, status |-> "submitted", csrPEM |-> << "P" >>,
          errorMessage |-> << "x" >>, requestedBy |-> "mallory",
          requestedAt |-> NoDate, workflowSteps |-> << >>] }

UpdateAllowed(doc) == doc.status = "draft"

\* mass assignment: every key of the body is applied
ApplyAllowed_MassAssign(doc, body) ==
  [f \in DOMAIN doc |-> IF f \in DOMAIN body THEN body[f] ELSE doc[f]]

ApplyAllowed(doc, body) ==
  [f \in DOMAIN doc |-> IF f \in allowedFields /\ f \in DOMAIN body THEN body[f] ELSE doc[f]]

updateCSR(id, body) ==
  /\ UNCHANGED <<servers, cas, certs, clock, outbox, ps, settings, auth, run>>
  /\ LET R(code, error) ==
           Respond("update", [id |-> id, extraKeys |-> DOMAIN body \ allowedFields], code, error, NoCall)
     IN
     IF ~Found(id)
       THEN csr' = csr /\ last' = R(404, "CSR request not found")
     ELSE IF ~UpdateAllowed(Doc)
       THEN csr' = csr /\ last' = R(400, "Can only update draft CSR requests")
     ELSE IF ~SchemaValid(ApplyAllowed(Doc, body))
       THEN csr' = csr /\ last' = R(500, "Failed to update CSR request")
     ELSE csr' = << ApplyAllowed(Doc, body) >> /\ last' = R(200, "")

\* no status guard on delete
DeleteAllowed_Any(doc) == doc.status \in StatusEnum

DeleteAllowed(doc) == doc.status # "submitted"

deleteCSR(id) ==
  /\ UNCHANGED <<servers, cas, certs, clock, outbox, ps, settings, auth, run>>
  /\ LET R(code, error) == Respond("delete", [id |-> id], code, error, NoCall) IN
     IF ~Found(id)
       THEN csr' = csr /\ last' = R(404, "CSR request not found")
     ELSE IF ~DeleteAllowed(Doc)
       THEN csr' = csr /\ last' = R(400, "Cannot delete submitted CSR")
     ELSE csr' = << >> /\ last' = R(200, "")

subjectFields == << "organization", "organizationalUnit", "locality", "state", "country" >>

\* the checks of generateCSR that run before anything is written
GenerateInputError(doc) ==
  IF ~validateSubjectField(doc.commonName)
    THEN "Invalid common name: contains disallowed characters"
  ELSE IF doc.hashAlgorithm \notin SAFE_HASH_ALGORITHMS
    THEN "Invalid hash algorithm"
  ELSE IF doc.keySize \notin VALID_KEY_SIZES
    THEN "Invalid key size"
  ELSE IF \E i \in 1..Len(subjectFields) :
            Truthy(doc.subject[subjectFields[i]]) /\ ~validateSubjectField(doc.subject[subjectFields[i]])
    THEN "Invalid subject field"
  ELSE IF \E i \in 1..Len(doc.subjectAlternativeNames) : ~validateSAN(doc.subjectAlternativeNames[i])
    THEN "Invalid SAN"
  ELSE ""

\* the request-supplied text generateCSR writes into the INF content and the
\* script, each with the validator generateCSR has applied to it (keySize and
\* hashAlgorithm are checked against their sets and are not free text)
GenerateTainted(doc, computerName) ==
     { Arg("commonName", "subject", doc.commonName) }
  \cup { Arg(subjectFields[i], "subject", doc.subject[subjectFields[i]]) :
           i \in {j \in 1..Len(subjectFields) : Truthy(doc.subject[subjectFields[j]])} }
  \cup { Arg("san", "san", doc.subjectAlternativeNames[i]) : i \in 1..Len(doc.subjectAlternativeNames) }
  \cup (IF computerName # Localhost THEN {Arg("remoteComputer", "hostname", computerName)} ELSE {})

ComputerName(doc) ==
  IF Resolves(servers, doc.targetServerId) /\ Truthy(servers[doc.targetServerId].fqdn)
  THEN servers[doc.targetServerId].fqdn ELSE Localhost

\* the status guard also lets a failed CSR through
GenerateAllowed_Failed(doc) == doc.status \in {"draft", "pending", "failed"}

GenerateAllowed(doc) == doc.status = "draft" \/ doc.status = "pending"

GenerateStart(doc) ==
  updateWorkflowStep([doc EXCEPT !.status = "pending"], "Generate CSR", "pending", NoText)

\* the success branch forgets to store the gateway output
GenerateFinish_NoPem(doc, computerName, result) ==
  IF result.success
  THEN updateWorkflowStep([doc EXCEPT !.privateKeyLocation = computerName],
                          "Generate CSR", "completed", NoText)
  ELSE [updateWorkflowStep([doc EXCEPT !.errorMessage = result.error],
                           "Generate CSR", "failed", result.error)
        EXCEPT !.status = "failed"]

\* the two branches on the gateway result
GenerateFinish(doc, computerName, result) ==
  IF result.success
  THEN updateWorkflowStep([doc EXCEPT !.csrPEM = result.output,
                                      !.privateKeyLocation = computerName],
                          "Generate CSR", "completed", NoText)
  ELSE [updateWorkflowStep([doc EXCEPT !.errorMessage = result.error],
                           "Generate CSR", "failed", result.error)
        EXCEPT !.status = "failed"]

generateCSR(id, proc) ==
  /\ UNCHANGED <<servers, cas, certs, clock, outbox, ps, settings, auth, run>>
  /\ LET R(code, error, res) == Respond("generate", [id |-> id], code, error, res) IN
     IF ~Found(id)
       THEN csr' = csr /\ last' = R(404, "CSR request not found", NoCall)
     ELSE IF ~GenerateAllowed(Doc)
       THEN csr' = csr /\ last' = R(400, "CSR already generated or processed", NoCall)
     ELSE IF GenerateInputError(Doc) # ""
       THEN csr' = csr /\ last' = R(400, GenerateInputError(Doc), NoCall)
     ELSE
       LET started == GenerateStart(Doc)
           computerName == ComputerName(Doc)
           result == executePowerShell(
                       [script |-> TRUE, scriptFile |-> << >>, parameters |-> << >>,
                        remoteComputer |-> IF computerName # Localhost THEN computerName ELSE NoText,
                        tainted |-> GenerateTainted(started, computerName)], proc)
       IN
       IF computerName # Localhost /\ ~validateHostname(computerName)
         THEN csr' = << started >> /\ last' = R(400, "Invalid target server hostname", NoCall)
       ELSE IF result.threw
         THEN csr' = << started >> /\ last' = R(500, "Failed to generate CSR", result)
       ELSE /\ csr' = << GenerateFinish(started, computerName, result) >>
            /\ last' = R(IF result.success THEN 200 ELSE 500,
                         IF result.success THEN "" ELSE "Failed to generate CSR", result)

TemplateOf(doc) == IF Truthy(doc.templateName) THEN doc.templateName ELSE DefaultTemplate

\* the csrPEM check is missing
SubmitRefusal_NoPemCheck(doc) ==
  IF ~Resolves(cas, doc.targetCAId) THEN "Target CA must be specified" ELSE ""

\* the checks of submitCSRToCA that run before anything is written
SubmitRefusal(doc) ==
  IF ~Truthy(doc.csrPEM) THEN "CSR must be generated first"
  ELSE IF ~Resolves(cas, doc.targetCAId) THEN "Target CA must be specified"
  ELSE ""

SubmitStart(doc) ==
  updateWorkflowStep([doc EXCEPT !.status = "submitted"], "Submit to CA", "pending", NoText)

\* the failure branch marks the step but leaves the status
SubmitFinish_KeepStatus(doc, result) ==
  IF result.success
  THEN [updateWorkflowStep(doc, "Submit to CA", "completed", NoText) EXCEPT !.processedAt = Now]
  ELSE updateWorkflowStep([doc EXCEPT !.errorMessage = result.error],
                          "Submit to CA", "failed", result.error)

SubmitFinish(doc, result) ==
  IF result.success
  THEN [updateWorkflowStep(doc, "Submit to CA", "completed", NoText) EXCEPT !.processedAt = Now]
  ELSE [updateWorkflowStep([doc EXCEPT !.errorMessage = result.error],
                           "Submit to CA", "failed", result.error)
        EXCEPT !.status = "failed"]

submitCSRToCA(id, proc) ==
  /\ UNCHANGED <<servers, cas, certs, clock, outbox, ps, settings, auth, run>>
  /\ LET R(code, error, res) == Respond("submit", [id |-> id], code, error, res) IN
     IF ~Found(id)
       THEN csr' = csr /\ last' = R(404, "CSR request not found", NoCall)
     ELSE IF SubmitRefusal(Doc) # ""
       THEN csr' = csr /\ last' = R(400, SubmitRefusal(Doc), NoCall)
     ELSE
       LET started == SubmitStart(Doc)
           result == submitCSR(<< TheId >>, cas[Doc.targetCAId].configString, TemplateOf(Doc), proc)
       IN
       IF result.threw
         THEN csr' = << started >> /\ last' = R(500, "Failed to submit CSR", result)
       ELSE /\ csr' = << SubmitFinish(started, result) >>
            /\ last' = R(IF result.success THEN 200 ELSE 500,
                         IF result.success THEN "" ELSE "Failed to submit CSR", result)

\* -------------------------------------------------------- CSR workflow spec
\* ps is the gateway call in flight: its phase, its options and the time the
\* spawned process has been running and, once it is over, what it did; outbox is the mail handed to the
\* transport; clock is the server's time in seconds
NoOptions ==
  [script |-> FALSE, scriptFile |-> << >>, parameters |-> << >>,
   remoteComputer |-> NoText, tainted |-> {}, timeout |-> 0]
NoProc == Proc("none", << >>, << >>)
Idle == [phase |-> "idle", options |-> NoOptions, elapsed |-> 0, proc |-> NoProc]

\* no refresh token stored, none exchanged, no logout answered
NoAuth == [tokens |-> [t \in {} |-> NoId], exchanged |-> {}, loggedOut |-> {}]
\* no concurrent writer under way; v is the document's __v
NoRun ==
  [v |-> 0,
   rec |-> [pc |-> 0, wrote |-> << >>],
   disp |-> [pc |-> "idle", doc |-> << >>, mailed |-> FALSE],
   manual |-> [pc |-> "idle", doc |-> << >>, mailed |-> FALSE],
   del |-> [pc |-> "idle"],
   sub |-> [pc |-> "idle", doc |-> << >>],
   ref |-> [p \in {1, 2} |-> [pc |-> "idle", token |-> << >>, ok |-> FALSE, at |-> 0]],
   sched |-> [notificationJob |-> << >>, syncJob |-> << >>, active |-> {}, inits |-> 0],
   bind |-> [pc |-> "idle", doc |-> << >>, v |-> 0, bound |-> FALSE],
   sync |-> "idle"]
Init ==
  /\ csr = << >>
  /\ servers = InitServers
  /\ cas = InitCAs
  /\ certs = [sn \in {} |-> NoId]
  /\ last = Respond("none", [id |-> NoId], 0, "", NoCall)
  /\ clock = 0
  /\ outbox = << >>
  /\ ps = Idle
  /\ settings = << >>
  /\ auth = NoAuth
  /\ run = NoRun

\* a request for an unknown id is answered 404 whatever else it carries
UnknownId == "c0"
UpdateRequests == ({TheId} \X UpdateBodies) \cup {<< UnknownId, [commonName |-> GoodCN] >>}
GatewayRequests == ({TheId} \X ProcOutcomes) \cup {<< UnknownId, Proc("exit0", << "P" >>, << >>) >>}

CreateCSR == \E body \in CreateBodies, user \in Usernames : createCSR(body, user)
UpdateCSR == \E r \in UpdateRequests : updateCSR(r[1], r[2])
GenerateCSR == \E r \in GatewayRequests : generateCSR(r[1], r[2])
SubmitCSRToCA == \E r \in GatewayRequests : submitCSRToCA(r[1], r[2])
DeleteCSR == \E id \in {TheId, UnknownId} : deleteCSR(id)

Next == CreateCSR \/ UpdateCSR \/ GenerateCSR \/ SubmitCSRToCA \/ DeleteCSR

Spec == Init /\ [][Next]_vars

\* ------------------------------------------------- powershellService calls
UpperSeq == << "A","B","C","D","E","F","G","H","I","J","K","L","M",
               "N","O","P","Q","R","S","T","U","V","W","X","Y","Z" >>
LowerSeq == << "a","b","c","d","e","f","g","h","i","j","k","l","m",
               "n","o","p","q","r","s","t","u","v","w","x","y","z" >>
toLowerCase(s) ==
  [i \in 1..Len(s) |->
     IF s[i] \in Upper THEN LowerSeq[CHOOSE k \in 1..Len(UpperSeq) : UpperSeq[k] = s[i]] ELSE s[i]]

ComputerNameKey == << "C","o","m","p","u","t","e","r","N","a","m","e" >>
ConfigStringKey == << "C","o","n","f","i","g","S","t","r","i","n","g" >>

\* testConnection and testWinRM have the same shape: validate, run an inline
\* script with the hostname in single quotes, compare the output with 'true'
testHost(hostname, proc) ==
  IF ~validateHostname(hostname) THEN Result(FALSE, NoText, NoText)
  ELSE LET r == executePowerShell(
                  [script |-> TRUE, scriptFile |-> << >>, parameters |-> << >>,
                   remoteComputer |-> NoText,
                   tainted |-> {Arg("hostname", "hostname", hostname)}], proc)
       IN [r EXCEPT !.success = r.success /\ toLowerCase(r.output) = << "t","r","u","e" >>]

getCAIssuedCertificates(configString, proc) ==
  IF ~validateConfigString(configString)
    THEN Result(FALSE, NoText, Lit("Invalid CA config string"))
  ELSE executePowerShell(
         [script |-> FALSE, scriptFile |-> << "Get-IssuedCertificates.ps1" >>,
          parameters |-> << Param(ConfigStringKey, "string", configString) >>,
          remoteComputer |-> NoText,
          tainted |-> {Arg("configString", "config", configString)}], proc)

\* the hostname check is missing
installCertificate_NoHostCheck(hostname, certPath, proc) ==
  executePowerShell(
    [script |-> FALSE, scriptFile |-> << "Install-Certificate.ps1" >>,
     parameters |-> << Param(ComputerNameKey, "string", hostname),
                       Param(<< "C","e","r","t","i","f","i","c","a","t","e","P","a","t","h" >>,
                             "string", certPath) >>,
     remoteComputer |-> NoText,
     tainted |-> {Arg("hostname", "hostname", hostname),
                  Arg("certificatePath", "none", certPath)}], proc)

installCertificate(hostname, certPath, proc) ==
  IF ~validateHostname(hostname)
    THEN Result(FALSE, NoText, Lit("Invalid hostname"))
  ELSE executePowerShell(
         [script |-> FALSE, scriptFile |-> << "Install-Certificate.ps1" >>,
          parameters |-> << Param(ComputerNameKey, "string", hostname),
                            Param(<< "C","e","r","t","i","f","i","c","a","t","e","P","a","t","h" >>,
                                  "string", certPath) >>,
          remoteComputer |-> NoText,
          tainted |-> {Arg("hostname", "hostname", hostname),
                       Arg("certificatePath", "none", certPath)}], proc)

bindIISCertificate(hostname, siteName, thumbprint, port, proc) ==
  IF ~validateHostname(hostname)
    THEN Result(FALSE, NoText, Lit("Invalid hostname"))
  ELSE IF ~validateThumbprint(thumbprint)
    THEN Result(FALSE, NoText, Lit("Invalid certificate thumbprint"))
  ELSE executePowerShell(
         [script |-> FALSE, scriptFile |-> << "Bind-IISCertificate.ps1" >>,
          parameters |-> << Param(ComputerNameKey, "string", hostname),
                            Param(<< "S","i","t","e","N","a","m","e" >>, "string", siteName),
                            Param(<< "T","h","u","m","b","p","r","i","n","t" >>, "string", thumbprint),
                            Param(<< "P","o","r","t" >>, "number", port) >>,
          remoteComputer |-> NoText,
          tainted |-> {Arg("hostname", "hostname", hostname),
                       Arg("siteName", "none", siteName),
                       Arg("thumbprint", "thumbprint", thumbprint)}], proc)

\* -------------------------------------------------------- serverController
ConnProcOutcomes ==
  { Proc("exit0", << "T","r","u","e","\n" >>, << >>),
    Proc("exit0", << "F","a","l","s","e" >>, << >>),
    Proc("exit1", << >>, << "E" >>) }

testServerConnectivity(id, procPing, procWinRM) ==
  /\ UNCHANGED <<csr, cas, certs, clock, outbox, ps, settings, auth, run>>
  /\ IF ~Resolves(servers, id)
       THEN /\ servers' = servers
            /\ last' = Respond("testConnectivity", [id |-> id], 404, "Server not found", NoCall)
     ELSE LET ping == testHost(servers[id].fqdn, procPing)
              winrm == testHost(servers[id].fqdn, procWinRM)
          IN /\ servers' = [servers EXCEPT ![id].status = IF ping.success THEN "online" ELSE "offline",
                                           ![id].winRMEnabled = winrm.success]
             /\ last' = Respond("testConnectivity", [id |-> id], 200, "",
                                [ping EXCEPT !.spawned = ping.spawned + winrm.spawned,
                                             !.cmd = ping.cmd \cup winrm.cmd,
                                             !.output = NoText, !.error = NoText])

GoodPath == << "C", ":", "\\", "c", ".", "p", "f", "x" >>
BadPath == << "c", "'", ";", "$", "(", "x", ")" >>
CertificatePaths == {NoText, GoodPath, BadPath}

deployCertificate(id, certificatePath, proc) ==
  /\ UNCHANGED <<csr, servers, cas, certs, clock, outbox, ps, settings, auth, run>>
  /\ LET R(code, error, res) ==
           Respond("deploy", [id |-> id, certificatePath |-> certificatePath], code, error, res)
     IN
     IF ~Truthy(certificatePath)
       THEN last' = R(400, "Certificate path is required", NoCall)
     ELSE IF ~Resolves(servers, id)
       THEN last' = R(404, "Server not found", NoCall)
     ELSE LET result == installCertificate(servers[id].fqdn, certificatePath, proc) IN
          IF result.threw THEN last' = R(500, "Failed to deploy certificate", result)
          ELSE IF result.success THEN last' = R(200, "", result)
          ELSE last' = R(500, "Failed to deploy certificate", result)

GoodSite == << "D", "e", "f", " ", "S", "i", "t", "e" >>
BadSite == << "x", "'", ";", "y" >>
SiteNames == {NoText, GoodSite, BadSite}
ThumbprintA == << "A", "1", "f" >>
BadThumbprint == << "A", "'", ";" >>
Thumbprints == {NoText, ThumbprintA, BadThumbprint}
DefaultPort == 443

\* Certificate.findOne({ thumbprint })
FindByThumbprint(thumbprint) == {sn \in DOMAIN certs : certs[sn].thumbprint = thumbprint}

BindDeployment(cert, id, siteName, port) ==
  LET binding == [type |-> "IIS", siteName |-> siteName, port |-> port]
      existing == {i \in 1..Len(cert.deployedTo) : cert.deployedTo[i].serverId = id}
  IN IF existing # {}
     THEN LET i == CHOOSE k \in existing : \A j \in existing : k <= j IN
          [cert EXCEPT !.deployedTo[i].binding = binding, !.deployedTo[i].deployedAt = Now]
     ELSE [cert EXCEPT !.deployedTo =
             Append(@, [serverId |-> id, serverName |-> servers[id].fqdn,
                        binding |-> binding, deployedAt |-> Now])]

bindCertificate(id, siteName, thumbprint, port, proc) ==
  /\ UNCHANGED <<csr, cas, clock, outbox, ps, settings, auth, run>>
  /\ LET R(code, error, res) ==
           Respond("bind", [id |-> id, siteName |-> siteName, thumbprint |-> thumbprint],
                   code, error, res)
         same == servers' = servers /\ certs' = certs
     IN
     IF ~Truthy(siteName) \/ ~Truthy(thumbprint)
       THEN same /\ last' = R(400, "Site name and certificate thumbprint are required", NoCall)
     ELSE IF ~Resolves(servers, id)
       THEN same /\ last' = R(404, "Server not found", NoCall)
     ELSE IF "IIS" \notin servers[id].roles
       THEN same /\ last' = R(400, "Server does not have IIS role", NoCall)
     ELSE LET result == bindIISCertificate(servers[id].fqdn, siteName, thumbprint, port, proc) IN
          IF result.threw THEN same /\ last' = R(500, "Failed to bind certificate", result)
          ELSE IF ~result.success THEN same /\ last' = R(500, "Failed to bind certificate", result)
          ELSE /\ last' = R(200, "", result)
               /\ IF FindByThumbprint(thumbprint) = {} THEN same
                  ELSE LET sn == CHOOSE x \in FindByThumbprint(thumbprint) : TRUE IN
                       /\ certs' = [certs EXCEPT ![sn] = BindDeployment(@, id, siteName, port)]
                       /\ servers' = [servers EXCEPT ![id].certificates = @ \cup {sn}]

\* ------------------------------------------- certificateService.syncCA
\* The CA script prints JSON.  The output is modelled as a sequence of tokens:
\* "[" and "]" and the names of certificate records; JSON.parse accepts a
\* bracketed list of records or one record alone.
\* times are seconds (the code computes in milliseconds)
Day == 86400
ExpiringDays == 30
\* what a CA reports for serial 01: NotAfter 40 s from the start, or 45 days
CertRecords ==
  [t \in {"certA", "certB"} |->
     [SerialNumber |-> "01", Thumbprint |-> ThumbprintA,
      NotAfter |-> IF t = "certA" THEN 40 ELSE 45 * Day]]
\* valid JSON that is no certificate record: null, and an object without the
\* fields of a record, whose NotAfter gives an invalid Date
NullItem == [SerialNumber |-> NoId, Thumbprint |-> "null", NotAfter |-> 0]
EmptyItem == [SerialNumber |-> NoId, Thumbprint |-> NoText, NotAfter |-> 0]
IsRecord(t) == t \in DOMAIN CertRecords
IsJSONValue(t) == IsRecord(t) \/ t \in {"null", "{}"}
JSONValue(t) ==
  IF IsRecord(t) THEN CertRecords[t] ELSE IF t = "null" THEN NullItem ELSE EmptyItem
JSONParses(output) ==
  \/ Len(output) = 1 /\ IsJSONValue(output[1])
  \/ /\ Len(output) >= 2 /\ output[1] = "[" /\ output[Len(output)] = "]"
     /\ \A i \in 2..(Len(output) - 1) : IsJSONValue(output[i])
\* JSON.parse, with a single value wrapped into an array
JSONParse(output) ==
  IF Len(output) = 1 THEN << JSONValue(output[1]) >>
  ELSE [i \in 1..(Len(output) - 2) |-> JSONValue(output[i + 1])]

SyncProcOutcomes ==
  { Proc("exit0", << "[", "certA", "]", "\n" >>, << >>),
    Proc("exit0", << "certA" >>, << >>),
    Proc("exit0", << "[", "]" >>, << >>),
    Proc("exit0", << "[", "certA" >>, << >>),
    Proc("exit0", << >>, << >>),
    Proc("exit0", << "{}" >>, << >>),
    Proc("exit0", << "[", "certA", "null", "]" >>, << >>),
    Proc("exit1", << >>, << "E" >>) }

\* variant: the $setOnInsert fields are written on every sync
Upsert_ResetOnUpdate(store, certData, caId) ==
  LET sn == certData.SerialNumber IN
  [x \in DOMAIN store \cup {sn} |->
     IF x = sn
     THEN [serialNumber |-> sn, thumbprint |-> certData.Thumbprint, caId |-> caId,
           validTo |-> certData.NotAfter, lastSyncedAt |-> Now,
           status |-> "active", deployedTo |-> << >>, notificationsSent |-> << >>,
           discoveredAt |-> Now]
     ELSE store[x]]

\* findOneAndUpdate({serialNumber}, {$set, $setOnInsert}, {upsert: true})
Upsert(store, certData, caId) ==
  LET sn == certData.SerialNumber IN
  IF sn \in DOMAIN store
  THEN [store EXCEPT ![sn].thumbprint = certData.Thumbprint,
                     ![sn].caId = caId,
                     ![sn].validTo = certData.NotAfter,
                     ![sn].lastSyncedAt = Now]
  ELSE [x \in DOMAIN store \cup {sn} |->
          IF x = sn
          THEN [serialNumber |-> sn, thumbprint |-> certData.Thumbprint, caId |-> caId,
                validTo |-> certData.NotAfter, lastSyncedAt |-> Now,
                status |-> "active", deployedTo |-> << >>, notificationsSent |-> << >>,
                discoveredAt |-> Now]
          ELSE store[x]]

\* the loop over the parsed items.  An item whose update throws is logged and
\* skipped (the invalid Date of an object without NotAfter fails the cast);
\* for null the log line itself reads certData.SerialNumber and throws out of
\* the loop, after the upserts already made
RECURSIVE UpsertAll(_, _, _)
UpsertAll(store, records, caId) ==
  IF records = << >> THEN [certs |-> store, threw |-> FALSE]
  ELSE IF Head(records) = NullItem THEN [certs |-> store, threw |-> TRUE]
  ELSE UpsertAll(IF Head(records) = EmptyItem THEN store ELSE Upsert(store, Head(records), caId),
                 Tail(records), caId)

syncCAById(id, proc) ==
  /\ UNCHANGED <<csr, servers, clock, outbox, ps, settings, auth, run>>
  /\ LET R(code, error, res) == Respond("sync", [id |-> id], code, error, res)
         same == cas' = cas /\ certs' = certs
     IN
     IF ~Resolves(cas, id)
       THEN same /\ last' = R(404, "Certificate authority not found", NoCall)
     ELSE LET result == getCAIssuedCertificates(cas[id].configString, proc) IN
          IF result.threw \/ ~result.success \/ ~JSONParses(result.output)
            THEN same /\ last' = R(500, "Failed to sync certificate authority", result)
          ELSE LET loop == UpsertAll(certs, JSONParse(result.output), id) IN
               /\ certs' = loop.certs
               /\ IF loop.threw
                    THEN cas' = cas /\ last' = R(500, "Failed to sync certificate authority", result)
                    ELSE /\ cas' = [cas EXCEPT ![id].lastSyncedAt = Now]
                         /\ last' = R(200, "", result)

\* ------------------------------------------------ command gateway spec
\* every operation that reaches the gateway, over CSRs created with each kind
\* of valid and invalid field
SampleBodies ==
  { [commonName |-> GoodCN, subjectAlternativeNames |-> << GoodSAN >>, subject |-> GoodSubject,
     targetServerId |-> "s1", targetCAId |-> "ca1", templateName |-> GoodTemplate],
    [commonName |-> BadCN],
    [commonName |-> LongCN],
    [commonName |-> GoodCN, subjectAlternativeNames |-> << BadSAN >>],
    [commonName |-> GoodCN, subject |-> BadSubject],
    [commonName |-> GoodCN, targetServerId |-> "s2"],
    [commonName |-> GoodCN, targetCAId |-> "ca2"],
    [commonName |-> GoodCN, targetCAId |-> "ca1", templateName |-> BadTemplate] }
GatewayProcOutcomes == { Proc("exit0", << "P" >>, << >>), Proc("exit1", << >>, << "E" >>) }

GwCreateCSR == \E body \in SampleBodies, user \in Usernames : createCSR(body, user)
GwGenerateCSR == \E proc \in GatewayProcOutcomes : generateCSR(TheId, proc)
GwSubmitCSRToCA == \E proc \in GatewayProcOutcomes : submitCSRToCA(TheId, proc)
TestServerConnectivity ==
  \E id \in {"s1", "s2", "sX"}, p1 \in ConnProcOutcomes, p2 \in ConnProcOutcomes :
    testServerConnectivity(id, p1, p2)
DeployCertificate ==
  \E id \in {"s1", "s2", "sX"}, path \in CertificatePaths, proc \in GatewayProcOutcomes :
    deployCertificate(id, path, proc)
BindCertificate ==
  \E id \in {"s1", "s2", "s3", "sX"}, site \in SiteNames, tp \in Thumbprints,
     proc \in GatewayProcOutcomes :
    bindCertificate(id, site, tp, DefaultPort, proc)
SyncCAById == \E id \in {"ca1", "ca2", "caX"}, proc \in SyncProcOutcomes : syncCAById(id, proc)

\* The CSR handlers write only the CSR collection and read only fqdn and
\* configString; the server and CA handlers write only servers, cas and certs
\* and never read the CSR collection.  The two groups commute, so the server
\* and CA operations are run on an empty CSR collection and the CSR operations
\* on untouched servers, CAs and certificates.
Untouched == servers = InitServers /\ cas = InitCAs /\ DOMAIN certs = {}
GatewayNext ==
  \/ Untouched /\ (GwCreateCSR \/ GwGenerateCSR \/ GwSubmitCSRToCA)
  \/ csr = << >> /\ (TestServerConnectivity \/ DeployCertificate \/ BindCertificate \/ SyncCAById)

GatewaySpec == Init /\ [][GatewayNext]_vars

\* ------------------------------------------------- gateway call spec
\* one executePowerShell call at a time, followed from the input checks to
\* the close or error event of the spawned process
\* timeout of executePowerShell when the caller gives none, and of testConnection
DefaultTimeout == 60000
PingTimeout == 10000

Traversal == << "..", "..", "etc", "passwd" >>
ScriptFiles == { << >>, << "Get-CAInfo.ps1" >>, << "Evil.ps1" >>, Traversal }
PortKey == << "P", "o", "r", "t" >>
BadKey == << "a", "-", "b" >>
ParameterLists ==
  { << >>,
    << Param(PortKey, "number", << "443" >>) >>,
    << Param(PortKey, "boolean", << "true" >>), Param(BadKey, "string", << "x" >>) >>,
    << Param(PortKey, "nonfinite", << "Infinity" >>) >> }
ExecOptions ==
  [script : BOOLEAN, scriptFile : ScriptFiles, parameters : ParameterLists,
   remoteComputer : {NoText, GoodFqdn, BadFqdn}, tainted : {{}},
   timeout : {PingTimeout, DefaultTimeout}]

\* the executor runs up to spawn() synchronously: the call either settles at
\* once or leaves a process running
SpawnsProcess(options) ==
  \E proc \in ProcOutcomes : executePowerShell(options, proc).spawned = 1
Settle(options, result) == Respond("executePowerShell", options, 0, "", result)

ExecCall ==
  \E options \in ExecOptions :
    /\ ps.phase = "idle"
    /\ IF SpawnsProcess(options)
         THEN /\ ps' = [phase |-> "running", options |-> options, elapsed |-> 0, proc |-> NoProc]
              /\ last' = Respond("spawn", options, 0, "", NoCall)
         ELSE /\ ps' = Idle
              /\ last' = Settle(options, executePowerShell(options, Proc("exit0", << >>, << >>)))
    /\ UNCHANGED <<csr, servers, cas, certs, clock, outbox, settings, auth, run>>

\* the timer spawn() was given expires while the process still runs
PsTimer ==
  /\ ps.phase = "running"
  /\ ps.elapsed < ps.options.timeout
  /\ ps' = [ps EXCEPT !.elapsed = ps.options.timeout]
  /\ UNCHANGED <<csr, servers, cas, certs, clock, outbox, last, settings, auth, run>>

\* ps.on('close') after the process exited by itself
PsClose ==
  \E proc \in {p \in ProcOutcomes : p.kind \in {"exit0", "exit1"}} :
    /\ ps.phase = "running"
    /\ ps.elapsed <= ps.options.timeout
    /\ last' = Settle(ps.options, executePowerShell(ps.options, proc))
    /\ ps' = [ps EXCEPT !.phase = "idle", !.proc = proc]
    /\ UNCHANGED <<csr, servers, cas, certs, clock, outbox, settings, auth, run>>

\* the timer expired: the process is killed and closes with code null
PsTimeout ==
  \E proc \in {p \in ProcOutcomes : p.kind = "timeout"} :
    /\ ps.phase = "running"
    /\ ps.elapsed >= ps.options.timeout
    /\ last' = Settle(ps.options, executePowerShell(ps.options, proc))
    /\ ps' = [ps EXCEPT !.phase = "idle", !.proc = proc]
    /\ UNCHANGED <<csr, servers, cas, certs, clock, outbox, settings, auth, run>>

\* ps.on('error'): powershell.exe could not be started
PsError ==
  \E proc \in {p \in ProcOutcomes : p.kind = "spawnError"} :
    /\ ps.phase = "running"
    /\ ps.elapsed = 0
    /\ last' = Settle(ps.options, executePowerShell(ps.options, proc))
    /\ ps' = [ps EXCEPT !.phase = "idle", !.proc = proc]
    /\ UNCHANGED <<csr, servers, cas, certs, clock, outbox, settings, auth, run>>

ExecNext == ExecCall \/ PsTimer \/ PsClose \/ PsTimeout \/ PsError
ExecSpec == Init /\ [][ExecNext]_vars
\* the event loop runs every timer that is due and delivers every event
ExecLiveSpec == ExecSpec /\ WF_vars(PsTimer) /\ WF_vars(PsTimeout)

\* ------------------------------------------------ certificate lifecycle
\* A stored certificate has the fields Upsert gives it.
MaxMails == 2

Serials == << "01", "02" >>
CertStatusEnum == {"active", "expiring", "expired", "revoked"}
\* `${days}day` and the enum of NotificationSentSchema
TypeOf(days) == << days, "day" >>
NotificationTypeEnum ==
  { << 90, "day" >>, << 60, "day" >>, << 30, "day" >>, << 14, "day" >>, << 7, "day" >>,
    << 1, "day" >> }

\* the NotificationSettings document: thresholds are any numbers an
\* administrator saved
Settings ==
  [enabled |-> TRUE,
   thresholds |-> << [days |-> 7, enabled |-> FALSE], [days |-> 30, enabled |-> TRUE],
                     [days |-> 45, enabled |-> TRUE] >>,
   recipients |-> << [type |-> "email", value |-> "ops@x"] >>]

RECURSIVE InsertDesc(_, _)
InsertDesc(sorted, d) ==
  IF sorted = << >> THEN << d >>
  ELSE IF d >= Head(sorted) THEN << d >> \o sorted
  ELSE << Head(sorted) >> \o InsertDesc(Tail(sorted), d)
RECURSIVE SortDesc(_)
SortDesc(seq) == IF seq = << >> THEN << >> ELSE InsertDesc(SortDesc(Tail(seq)), Head(seq))
IsEnabled(t) == t.enabled
\* variant: the enabled thresholds in the order of the document
EnabledThresholds_Unsorted(doc) ==
  LET on == SelectSeq(doc.thresholds, IsEnabled)
  IN [i \in 1..Len(on) |-> on[i].days]
EnabledThresholds(doc) ==
  LET on == SelectSeq(doc.thresholds, IsEnabled)
  IN SortDesc([i \in 1..Len(on) |-> on[i].days])

\* Certificate.find({status: {$ne: 'revoked'}, validTo: {$gte, $lte}})
findCertificatesExpiringInDays(store, now, days) ==
  LET targetDate == now + days * Day
      previousDay == now + (days - 1) * Day
      Hit(sn) == /\ sn \in DOMAIN store
                 /\ store[sn].status # "revoked"
                 /\ store[sn].validTo >= previousDay
                 /\ store[sn].validTo <= targetDate
  IN SelectSeq(Serials, Hit)

AlreadySent(cert, days) ==
  \E i \in 1..Len(cert.notificationsSent) : cert.notificationsSent[i].type = TypeOf(days)

\* variant: the entry is pushed and saved before sendMail is awaited
NotifyOne_RecordFirst(st, sn, days, failing) ==
  LET tried == [st EXCEPT !.attempted = @ \cup {<< sn, days >>},
                         !.order = Append(@, << sn, days >>)]
      recorded == [tried EXCEPT
                     !.certs[sn].notificationsSent =
                        Append(@, [type |-> TypeOf(days), sentAt |-> Now,
                                   recipients |-> st.recipients])]
  IN
  IF AlreadySent(st.certs[sn], days) THEN st
  ELSE IF sn \in failing
    THEN [recorded EXCEPT !.failed = @ + 1, !.errors = Append(@, sn)]
  ELSE [recorded EXCEPT !.outbox = Append(@, [serialNumber |-> sn, days |-> days]),
                        !.sent = @ + 1]

\* one pass of the inner loop body; st carries the store, the outbox and the
\* NotificationResult; failing is the set of certificates whose sendMail fails
\* in this run; attempted records the sendMail calls made, order the sequence
\* in which they were made
NotifyOne(st, sn, days, failing) ==
  LET cert == st.certs[sn]
      tried == [st EXCEPT !.attempted = @ \cup {<< sn, days >>},
                         !.order = Append(@, << sn, days >>)]
      failedOne(s) == [s EXCEPT !.failed = @ + 1, !.errors = Append(@, sn)]
  IN
  IF AlreadySent(cert, days) THEN st
  ELSE IF sn \in failing THEN failedOne(tried)
  ELSE LET mailed == [tried EXCEPT !.outbox = Append(@, [serialNumber |-> sn, days |-> days])] IN
       \* cert.save() validates the pushed entry against the schema
       IF TypeOf(days) \notin NotificationTypeEnum THEN failedOne(mailed)
       ELSE [mailed EXCEPT
               !.certs[sn].notificationsSent =
                  Append(@, [type |-> TypeOf(days), sentAt |-> Now, recipients |-> st.recipients]),
               !.sent = @ + 1]

\* variant: the first failure ends the loop over the certificates
RECURSIVE NotifyCerts_AbortOnFailure(_, _, _, _)
NotifyCerts_AbortOnFailure(st, expiringCerts, days, failing) ==
  IF expiringCerts = << >> \/ st.failed > 0 THEN st
  ELSE NotifyCerts_AbortOnFailure(NotifyOne(st, Head(expiringCerts), days, failing),
                                  Tail(expiringCerts), days, failing)

RECURSIVE NotifyCerts(_, _, _, _)
NotifyCerts(st, expiringCerts, days, failing) ==
  IF expiringCerts = << >> THEN st
  ELSE NotifyCerts(NotifyOne(st, Head(expiringCerts), days, failing),
                   Tail(expiringCerts), days, failing)
RECURSIVE NotifyThresholds(_, _, _, _)
NotifyThresholds(st, thresholds, now, failing) ==
  IF thresholds = << >> THEN st
  ELSE LET days == Head(thresholds) IN
       NotifyThresholds(
         NotifyCerts(st, findCertificatesExpiringInDays(st.certs, now, days), days, failing),
         Tail(thresholds), now, failing)

\* the addresses of the stored users, by username and by role
UserEmails == [u \in {"alice"} |-> "alice@x"]
RoleEmails == [r \in {"admin"} |-> << "alice@x" >>]
RECURSIVE AddAll(_, _)
AddAll(emails, more) ==
  IF more = << >> THEN emails
  ELSE AddAll(IF \E i \in 1..Len(emails) : emails[i] = Head(more)
                THEN emails ELSE Append(emails, Head(more)),
              Tail(more))
RECURSIVE resolveRecipients(_)
resolveRecipients(recipients) ==
  IF recipients = << >> THEN << >>
  ELSE LET r == recipients[Len(recipients)]
           before == resolveRecipients(SubSeq(recipients, 1, Len(recipients) - 1))
       IN IF r.type = "email" THEN AddAll(before, << r.value >>)
          ELSE IF r.type = "user"
            THEN (IF r.value \in DOMAIN UserEmails
                    THEN AddAll(before, << UserEmails[r.value] >>) ELSE before)
          ELSE IF r.type = "role"
            THEN (IF r.value \in DOMAIN RoleEmails
                    THEN AddAll(before, RoleEmails[r.value]) ELSE before)
          ELSE before

\* variant: the test for an empty recipient list is missing
sendExpirationNotifications_NoRecipientCheck(found, store, box, now, failing) ==
  LET st0 == [certs |-> store, outbox |-> box, success |-> TRUE, sent |-> 0, failed |-> 0,
              errors |-> << >>, attempted |-> {}, order |-> << >>,
              recipients |-> << >>]
  IN
  IF found = << >> THEN st0
  ELSE IF ~found[1].enabled THEN st0
  ELSE IF EnabledThresholds(found[1]) = << >> THEN st0
  ELSE NotifyThresholds([st0 EXCEPT !.recipients = resolveRecipients(found[1].recipients)],
                        EnabledThresholds(found[1]), now, failing)

\* found is NotificationSettings.findOne(): << >> or the one document
sendExpirationNotifications(found, store, box, now, failing) ==
  LET st0 == [certs |-> store, outbox |-> box, success |-> TRUE, sent |-> 0, failed |-> 0,
              errors |-> << >>, attempted |-> {}, order |-> << >>,
              recipients |-> << >>]
  IN
  IF found = << >> THEN st0
  ELSE IF ~found[1].enabled THEN st0
  ELSE IF EnabledThresholds(found[1]) = << >> THEN st0
  ELSE LET recipients == resolveRecipients(found[1].recipients) IN
       IF Len(recipients) = 0 THEN st0
       ELSE NotifyThresholds([st0 EXCEPT !.recipients = recipients],
                             EnabledThresholds(found[1]), now, failing)

\* the three filters of updateCertificateStatuses, at the instant now
ExpiredFilter_RevokedToo(c, now) == c.status # "expired" /\ c.validTo < now
ExpiredFilter(c, now) == c.status \notin {"expired", "revoked"} /\ c.validTo < now
ExpiringFilter_Exclusive(c, now) ==
  c.status = "active" /\ c.validTo >= now /\ c.validTo < now + ExpiringDays * Day
ExpiringFilter(c, now) ==
  c.status = "active" /\ c.validTo >= now /\ c.validTo <= now + ExpiringDays * Day
ActiveFilter_AnyDate(c, now) == c.status = "expiring"
ActiveFilter(c, now) == c.status = "expiring" /\ c.validTo > now + ExpiringDays * Day

\* Certificate.updateMany(filter, {$set: {status}}) and its modifiedCount
UpdateMany(store, Match(_), status) ==
  [sn \in DOMAIN store |->
     IF Match(store[sn]) THEN [store[sn] EXCEPT !.status = status] ELSE store[sn]]
ModifiedCount(store, Match(_), status) ==
  Cardinality({sn \in DOMAIN store : Match(store[sn]) /\ store[sn].status # status})

updateCertificateStatuses(store, now) ==
  LET s1 == UpdateMany(store, LAMBDA c : ExpiredFilter(c, now), "expired")
      s2 == UpdateMany(s1, LAMBDA c : ExpiringFilter(c, now), "expiring")
      s3 == UpdateMany(s2, LAMBDA c : ActiveFilter(c, now), "active")
  IN [certs |-> s3,
      totalUpdated |-> ModifiedCount(store, LAMBDA c : ExpiredFilter(c, now), "expired")
                       + ModifiedCount(s1, LAMBDA c : ExpiringFilter(c, now), "expiring")
                       + ModifiedCount(s2, LAMBDA c : ActiveFilter(c, now), "active")]

\* syncCA on the two collections.  trace
\* lists the calls made in one sweep and whether each returned or threw
Event(event, ca, ok) == [event |-> event, ca |-> ca, ok |-> ok]
syncCA(st, id, proc) ==
  LET result == getCAIssuedCertificates(st.cas[id].configString, proc) IN
  IF result.threw \/ ~result.success \/ ~JSONParses(result.output)
    THEN [st EXCEPT !.trace = Append(@, Event("syncCA", id, FALSE))]
  ELSE LET loop == UpsertAll(st.certs, JSONParse(result.output), id) IN
       IF loop.threw
         THEN [st EXCEPT !.certs = loop.certs,
                         !.trace = Append(@, Event("syncCA", id, FALSE))]
       ELSE [st EXCEPT !.certs = loop.certs,
                       !.cas = [st.cas EXCEPT ![id].lastSyncedAt = Now],
                       !.trace = Append(@, Event("syncCA", id, TRUE))]

\* the order find() returns the CAs in
CAOrder == << "ca2", "ca3", "ca1" >>
\* variant: no try/catch around syncCA, the first throw ends the loop
RECURSIVE SyncEach_AbortOnFailure(_, _, _)
SyncEach_AbortOnFailure(st, ids, proc) ==
  IF ids = << >> \/ (st.trace # << >> /\ ~st.trace[Len(st.trace)].ok) THEN st
  ELSE SyncEach_AbortOnFailure(
         IF st.cas[Head(ids)].syncEnabled THEN syncCA(st, Head(ids), proc) ELSE st,
         Tail(ids), proc)
RECURSIVE SyncEach(_, _, _)
SyncEach(st, ids, proc) ==
  IF ids = << >> THEN st
  ELSE SyncEach(IF st.cas[Head(ids)].syncEnabled THEN syncCA(st, Head(ids), proc) ELSE st,
                Tail(ids), proc)
syncAllCAs(st, now, proc) ==
  LET synced == SyncEach(st, CAOrder, proc)
      updated == updateCertificateStatuses(synced.certs, now)
  IN [certs |-> updated.certs, cas |-> synced.cas, totalUpdated |-> updated.totalUpdated,
      trace |-> Append(synced.trace, Event("updateCertificateStatuses", NoId, TRUE))]

\* ------------------------------------------- certificate lifecycle spec
\* the store starts with certificates of every status, with validTo on and
\* next to each boundary the reconciler and the dispatcher test
StoredCert(sn, status, validTo) ==
  [serialNumber |-> sn, thumbprint |-> ThumbprintA, caId |-> "ca1", validTo |-> validTo,
   lastSyncedAt |-> Now, status |-> status, deployedTo |-> << >>,
   notificationsSent |-> << >>, discoveredAt |-> Now]
ValidToSamples == {0 - 1, 0, ExpiringDays * Day, ExpiringDays * Day + 1, 45 * Day}
LifecycleStores ==
  LET first == { [sn \in {"01"} |-> StoredCert("01", st, vt)] :
                   st \in CertStatusEnum, vt \in ValidToSamples }
      second == { StoredCert("02", "active", vt) : vt \in {ExpiringDays * Day, 45 * Day} }
  IN {[sn \in {} |-> NoId]} \cup first
       \cup { [sn \in {"01", "02"} |-> IF sn = "01" THEN f["01"] ELSE c] :
                 f \in first, c \in second }
ClockValues == {0, 1, Day, Day + 1}
\* what the CA reports: serial 01 with an early or a late NotAfter, or
\* nothing usable
LifecycleSyncOutcomes ==
  { Proc("exit0", << "[", "certB", "]" >>, << >>), Proc("exit0", << "certA" >>, << >>),
    Proc("exit1", << >>, << "E" >>) }

LifecycleInit ==
  /\ csr = << >>
  /\ servers = InitServers
  /\ cas = InitCAs
  /\ certs \in LifecycleStores
  /\ last = Respond("none", [id |-> NoId], 0, "", NoCall)
  /\ clock = 0
  /\ outbox = << >>
  /\ ps = Idle
  /\ settings = << Settings >>
  /\ auth = NoAuth
  /\ run = NoRun

Tick ==
  /\ \E t \in ClockValues : t > clock /\ clock' = t
  /\ UNCHANGED <<csr, servers, cas, certs, last, outbox, ps, settings, auth, run>>

\* after records a call that directly follows another call of the same
\* operation at the same instant, and what that call returned
UpdateCertificateStatuses ==
  LET r == updateCertificateStatuses(certs, clock)
      again == last.op = "reconcile" /\ last.req.now = clock
  IN /\ certs' = r.certs
     /\ last' = Respond("reconcile",
                        [now |-> clock, again |-> again,
                         before |-> IF again THEN last.result.totalUpdated ELSE 0],
                        0, "", [totalUpdated |-> r.totalUpdated])
     /\ UNCHANGED <<csr, servers, cas, clock, outbox, ps, settings, auth, run>>

SyncAllCAs ==
  \E proc \in LifecycleSyncOutcomes :
    LET r == syncAllCAs([certs |-> certs, cas |-> cas, trace |-> << >>], clock, proc) IN
    /\ certs' = r.certs
    /\ cas' = r.cas
    /\ last' = Respond("syncAll", [now |-> clock], 0, "",
                       [totalUpdated |-> r.totalUpdated, trace |-> r.trace])
    /\ UNCHANGED <<csr, servers, clock, outbox, ps, settings, auth, run>>

SyncOneCA == \E proc \in LifecycleSyncOutcomes : syncCAById("ca1", proc)

SendExpirationNotifications ==
  \E failing \in SUBSET {"01", "02"} :
    /\ Len(outbox) < MaxMails
    /\ LET st == sendExpirationNotifications(settings, certs, outbox, clock, failing) IN
       /\ certs' = st.certs
       /\ outbox' = st.outbox
       /\ last' = Respond("dispatch", [now |-> clock, failing |-> failing], 0, "",
                          [success |-> st.success, sent |-> st.sent, failed |-> st.failed,
                           errors |-> st.errors, attempted |-> st.attempted,
                           order |-> st.order])
    /\ UNCHANGED <<csr, servers, cas, clock, ps, settings, auth, run>>

LifecycleNext ==
  \/ Tick
  \/ UpdateCertificateStatuses
  \/ SyncAllCAs
  \/ SyncOneCA
  \/ SendExpirationNotifications
LifecycleSpec == LifecycleInit /\ [][LifecycleNext]_vars

\* ================================================================ claims
Exists == csr # << >>
NextDoc == csr'[1]
Addressed(op) == last'.op = op /\ Exists /\ last'.req.id = TheId
StepStatuses(doc) == [i \in 1..Len(doc.workflowSteps) |-> doc.workflowSteps[i].status]

\* C1: in every reachable state of a CSR, csrPEM is non-empty if and only if
\* the "Generate CSR" step has status completed.
C1_PemIffGenerateCompleted ==
  Exists => (Truthy(Doc.csrPEM) <=> StepStatus(Doc, "Generate CSR") = "completed")

\* C2: once a CSR has been submitted, or is failed, a change of its status
\* leads only to failed (or issued); no call moves it into submitted,
\* pending or draft again.
HasBeenSubmitted(doc) ==
  doc.status = "submitted" \/ StepStatus(doc, "Submit to CA") # "pending"
C2_NoReentryAfterSubmitted ==
  [][ (/\ Exists /\ csr' # << >>
       /\ HasBeenSubmitted(Doc) \/ Doc.status = "failed"
       /\ NextDoc.status # Doc.status)
      => NextDoc.status \in {"failed", "issued"} ]_vars

\* C3: a CSR's status becomes submitted only by a step taken in a state where
\* csrPEM is non-empty and targetCAId resolves to a CA; a submit call on a CSR
\* without csrPEM or without a resolving targetCAId is refused with 400,
\* spawns no process and changes nothing.
C3_SubmitNeedsPemAndCA ==
  [][ /\ (csr' # << >> /\ NextDoc.status = "submitted"
            /\ (~Exists \/ Doc.status # "submitted" \/ last'.op = "submit"))
         => (/\ Exists /\ Truthy(Doc.csrPEM) /\ Resolves(cas, Doc.targetCAId)
             /\ Truthy(NextDoc.csrPEM) /\ NextDoc.targetCAId # NoId)
      /\ (Addressed("submit") /\ (~Truthy(Doc.csrPEM) \/ ~Resolves(cas, Doc.targetCAId)))
         => (csr' = csr /\ last'.code = 400 /\ last'.result.spawned = 0
             /\ ~last'.result.called) ]_vars
C3_Witness ==
  /\ Exists /\ Doc.status = "submitted" /\ last.op = "submit"
  /\ Truthy(Doc.csrPEM) /\ Resolves(cas, Doc.targetCAId)

\* C4: delete on a submitted CSR is refused with the error "Cannot delete
\* submitted CSR" and leaves the CSR in the store unchanged; delete on a CSR
\* in any other status removes it.
C4_DeleteGuard ==
  [][ Addressed("delete")
      => IF Doc.status = "submitted"
         THEN csr' = csr /\ last'.code = 400 /\ last'.error = "Cannot delete submitted CSR"
         ELSE csr' = << >> /\ last'.code = 200 ]_vars
C4_Witness ==
  /\ last.op = "delete" /\ last.code = 400 /\ Exists /\ Doc.status = "submitted"

\* C5: update on a CSR that is not draft is refused and changes no field;
\* update on a draft CSR leaves status, csrPEM, workflowSteps, errorMessage,
\* requestedBy and requestedAt (and every other field outside the whitelist)
\* unchanged, whatever keys the body carries.
C5_UpdateFrame ==
  [][ Addressed("update")
      => IF Doc.status # "draft"
         THEN csr' = csr /\ last'.code = 400
         ELSE /\ csr' # << >>
              /\ \A f \in DOMAIN Doc \ allowedFields : NextDoc[f] = Doc[f]
              /\ \A f \in {"status", "csrPEM", "workflowSteps", "errorMessage",
                           "requestedBy", "requestedAt"} : NextDoc[f] = Doc[f] ]_vars
C5_Witness ==
  /\ last.op = "update" /\ last.code = 200 /\ "status" \in last.req.extraKeys
  /\ Exists /\ Doc.status = "draft" /\ Doc.requestedBy = "alice"

\* C6: generate on a CSR whose status is not draft or pending is refused with
\* 400, spawns no process and changes no field; a generate call that reaches
\* the gateway started from draft or pending.
C6_GenerateStatusGuard ==
  [][ /\ (Addressed("generate") /\ Doc.status \notin {"draft", "pending"})
         => (csr' = csr /\ last'.code = 400 /\ ~last'.result.called
             /\ last'.result.spawned = 0)
      /\ (Addressed("generate") /\ last'.result.called)
         => Doc.status \in {"draft", "pending"} ]_vars
C6_Witness ==
  /\ last.op = "generate" /\ last.error = "CSR already generated or processed"
  /\ Exists /\ Doc.status \in {"submitted", "failed"}

\* C7: create with only a commonName answers 201 and stores a draft; a
\* generate call whose gateway call succeeds spawns exactly one process and
\* ends with status pending, csrPEM equal to the gateway output and step
\* "Generate CSR" completed; a submit call whose gateway call succeeds spawns
\* exactly one process and ends with status submitted and step "Submit to CA"
\* completed.
C7_EndToEnd ==
  [][ /\ (last'.op = "create" /\ ~Exists /\ DOMAIN last'.req = {"commonName"}
            /\ Truthy(last'.req.commonName))
         => (last'.code = 201 /\ csr' # << >> /\ NextDoc.status = "draft")
      /\ (Addressed("generate") /\ last'.result.called /\ last'.result.success)
         => (/\ last'.result.spawned = 1 /\ last'.code = 200
             /\ NextDoc.status = "pending"
             /\ NextDoc.csrPEM = last'.result.output
             /\ StepStatus(NextDoc, "Generate CSR") = "completed")
      /\ (Addressed("submit") /\ last'.result.called /\ last'.result.success)
         => (/\ last'.result.spawned = 1 /\ last'.code = 200
             /\ NextDoc.status = "submitted"
             /\ StepStatus(NextDoc, "Submit to CA") = "completed") ]_vars
C7_Witness ==
  /\ Exists /\ last.op = "submit" /\ last.result.success /\ last.result.spawned = 1
  /\ Doc.status = "submitted"
  /\ StepStatus(Doc, "Generate CSR") = "completed"
  /\ StepStatus(Doc, "Submit to CA") = "completed"

\* C8: when the gateway call made by generate or submit returns failure, the
\* call ends with status failed, errorMessage equal to the gateway's error
\* text, the in-flight step failed and the other steps' statuses as before;
\* at most one process was spawned.
InFlight(op) == IF op = "generate" THEN 1 ELSE 2
C8_GatewayFailure ==
  [][ \A op \in {"generate", "submit"} :
        (Addressed(op) /\ last'.result.called /\ ~last'.result.success)
        => (/\ csr' # << >>
            /\ NextDoc.status = "failed"
            /\ NextDoc.errorMessage = last'.result.error
            /\ StepStatuses(NextDoc) = [StepStatuses(Doc) EXCEPT ![InFlight(op)] = "failed"]
            /\ last'.result.spawned <= 1
            /\ last'.code = 500) ]_vars
C8_Witness ==
  /\ Exists /\ last.op = "submit" /\ last.result.called /\ ~last.result.success
  /\ last.result.spawned = 1 /\ Truthy(last.result.error)
  /\ Doc.status = "failed" /\ StepStatus(Doc, "Generate CSR") = "completed"

\* C9: when a subject field, SAN, hash algorithm, key size, hostname, CA
\* config string, thumbprint or template name fails its validator, generate,
\* submit, sync, deploy, bind and the connectivity test are rejected (error
\* response; the connectivity test reports ping and WinRM as failed) and no
\* process is spawned.
InvalidCsrField(doc) ==
  \/ ~validateSubjectField(doc.commonName)
  \/ doc.hashAlgorithm \notin SAFE_HASH_ALGORITHMS
  \/ doc.keySize \notin VALID_KEY_SIZES
  \/ \E f \in DOMAIN doc.subject : Truthy(doc.subject[f]) /\ ~validateSubjectField(doc.subject[f])
  \/ \E i \in 1..Len(doc.subjectAlternativeNames) : ~validateSAN(doc.subjectAlternativeNames[i])
  \/ /\ Resolves(servers, doc.targetServerId)
     /\ servers[doc.targetServerId].fqdn # Localhost
     /\ ~validateHostname(servers[doc.targetServerId].fqdn)
Rejected == last'.code >= 400 /\ last'.result.spawned = 0 /\ last'.result.cmd = {}
C10_CommandValuesValidated ==
  \A a \in last.result.cmd : a.validator # "none" /\ Passes(a.validator, a.value)

\* the input checks of executePowerShell, as the claim lists them
BoundaryViolation(o) ==
  \/ o.scriptFile # << >> /\ o.scriptFile \notin ALLOWED_SCRIPTS
  \/ o.scriptFile # << >> /\ ~StartsWith(ResolvePath(SCRIPTS_DIR, o.scriptFile), SCRIPTS_DIR)
  \/ o.scriptFile = << >> /\ ~o.script
  \/ \E i \in 1..Len(o.parameters) :
       ~SAFE_PARAM_KEY_REGEX(o.parameters[i].key) \/ o.parameters[i].type = "nonfinite"
  \/ o.remoteComputer # NoText /\ ~validateHostname(o.remoteComputer)
Settled == last.op = "executePowerShell"

\* C11: a call executePowerShell rejects at its input boundary spawns no
\* process, and a process runs only for options that passed every check.
C11_RejectedCallSpawnsNothing ==
  /\ ps.phase = "running" => ~BoundaryViolation(ps.options)
  /\ (Settled /\ BoundaryViolation(last.req))
       => (last.result.spawned = 0 /\ ps.proc = NoProc)
C11_Witness ==
  /\ Settled
  /\ last.req.scriptFile \in ALLOWED_SCRIPTS
  /\ last.req.parameters = << >>
  /\ last.req.remoteComputer = BadFqdn
  /\ last.result.spawned = 0

\* C12: executePowerShell completes every call with a Result; a rejected
\* input gives success = false and an error text, never a thrown exception or
\* a rejected promise.
C12_AlwaysAResult ==
  Settled =>
    /\ ~last.result.threw
    /\ BoundaryViolation(last.req) => (~last.result.success /\ Truthy(last.result.error))

\* C13: every call that spawned a process completes with a Result: killed at
\* the timeout it gives success = false; exit code 0 gives success = true with
\* the trimmed stdout as output; another exit gives success = false with the
\* trimmed stderr as error and the trimmed stdout as output.
Closed == ps.phase = "idle" /\ ps.proc # NoProc
C13_TimerBound ==
  /\ ps.phase = "running" => ps.elapsed <= ps.options.timeout
  /\ (Closed /\ ps.proc.kind = "timeout") => ps.elapsed >= ps.options.timeout
C13_SpawnedCallCompletes ==
  /\ [](C13_TimerBound)
  /\ [](Closed =>
         /\ Settled /\ ~last.result.threw
         /\ ps.proc.kind = "timeout" => ~last.result.success
         /\ ps.proc.kind = "exit0" =>
              (last.result.success /\ last.result.output = Trim(ps.proc.stdout))
         /\ ps.proc.kind = "exit1" =>
              /\ ~last.result.success
              /\ last.result.error = Trim(ps.proc.stderr)
              /\ last.result.output = Trim(ps.proc.stdout))
  /\ (ps.phase = "running") ~> Closed
C13_Witness ==
  /\ Closed
  /\ ps.proc.kind = "timeout"
  /\ ps.options.timeout = DefaultTimeout
  /\ ~last.result.success
\* C13 as stated: stdout and stderr are returned as the process wrote them
C13_RawStreams ==
  [](Closed =>
       /\ ps.proc.kind = "exit0" =>
            (last.result.success /\ last.result.output = ps.proc.stdout)
       /\ ps.proc.kind = "exit1" =>
            /\ ~last.result.success
            /\ last.result.error = ps.proc.stderr
            /\ last.result.output = ps.proc.stdout)

\* ---- notification dispatch
Dispatched == last'.op = "dispatch" /\ clock' = clock
EnabledDays == {Settings.thresholds[i].days : i \in {j \in 1..Len(Settings.thresholds) : Settings.thresholds[j].enabled}}
Pairs == {"01", "02"} \X EnabledDays
MailsFor(box, sn, d) ==
  Cardinality({i \in 1..Len(box) : box[i].serialNumber = sn /\ box[i].days = d})
EntriesFor(store, sn, d) ==
  Cardinality({i \in 1..Len(store[sn].notificationsSent) :
                 store[sn].notificationsSent[i].type = TypeOf(d)})
InWindow(store, sn, d, now) ==
  /\ store[sn].validTo >= now + (d - 1) * Day
  /\ store[sn].validTo <= now + d * Day
\* a pair the dispatcher has to act on: a certificate that is not revoked,
\* inside the window of an enabled threshold, without an entry of that type
Due(sn, d) ==
  /\ sn \in DOMAIN certs
  /\ certs[sn].status # "revoked"
  /\ InWindow(certs, sn, d, clock)
  /\ EntriesFor(certs, sn, d) = 0

\* C14: for every certificate and enabled threshold, the first dispatch that
\* finds the pair due (and whose send succeeds) sends exactly one email and
\* appends exactly one entry of that type, and every later dispatch sends no
\* further email for the pair.
C14_AtMostOnce ==
  [][ Dispatched =>
        \A p \in Pairs :
          LET sn == p[1]
              d == p[2]
          IN /\ (Due(sn, d) /\ MailsFor(outbox, sn, d) = 0 /\ sn \notin last'.req.failing)
                  => /\ MailsFor(outbox', sn, d) = 1
                     /\ EntriesFor(certs', sn, d) = 1
             /\ (sn \in DOMAIN certs /\ MailsFor(outbox, sn, d) >= 1)
                  => MailsFor(outbox', sn, d) = MailsFor(outbox, sn, d) ]_vars

\* C15: an entry for (certificate, threshold) is appended only in a dispatch
\* whose send for that pair succeeded; a failed send appends none.
C15_EntryOnlyAfterSend ==
  [][ Dispatched =>
        \A p \in Pairs :
          LET sn == p[1]
              d == p[2]
          IN sn \in DOMAIN certs =>
               /\ EntriesFor(certs', sn, d) > EntriesFor(certs, sn, d)
                    => /\ sn \notin last'.req.failing
                       /\ MailsFor(outbox', sn, d) = MailsFor(outbox, sn, d) + 1
               /\ sn \in last'.req.failing
                    => certs'[sn].notificationsSent = certs[sn].notificationsSent ]_vars
C15_Witness ==
  /\ last.op = "dispatch"
  /\ "01" \in last.req.failing
  /\ << "01", 30 >> \in last.result.attempted
  /\ certs["01"].notificationsSent = << >>
  /\ MailsFor(outbox, "01", 30) = 0

\* C16: in one dispatch a failed send is counted in failed and in errors and
\* every other due pair is still attempted.
C16_FailureDoesNotBlock ==
  [][ Dispatched =>
        LET r == last'.result
            sendFailures == {p \in r.attempted : p[1] \in last'.req.failing}
        IN /\ r.success
           /\ \A p \in Pairs : Due(p[1], p[2]) => p \in r.attempted
           /\ r.failed >= Cardinality(sendFailures)
           /\ Len(r.errors) = r.failed
           /\ r.sent + r.failed = Cardinality(r.attempted)
           /\ \A p \in sendFailures : \E i \in 1..Len(r.errors) : r.errors[i] = p[1] ]_vars
C16_Witness ==
  /\ last.op = "dispatch"
  /\ last.req.failing = {"01"}
  /\ last.result.attempted = {<< "01", 30 >>, << "02", 30 >>}
  /\ last.result.failed = 1
  /\ last.result.sent = 1
  /\ EntriesFor(certs, "02", 30) = 1

\* ---- status reconciliation
Reconciled == last'.op = "reconcile" /\ clock' = clock
Swept == last'.op \in {"reconcile", "syncAll"} /\ clock' = clock
Kept == DOMAIN certs \cap DOMAIN certs'

\* C17: a second updateCertificateStatuses at the same instant, directly
\* after the first, changes no certificate and returns 0.
C17_ReconcileIdempotent ==
  [][ (Reconciled /\ last.op = "reconcile" /\ last.req.now = clock)
        => (certs' = certs /\ last'.result.totalUpdated = 0) ]_vars
C17_Witness ==
  /\ last.op = "reconcile"
  /\ last.req.again
  /\ last.req.before > 0
  /\ last.result.totalUpdated = 0

\* C18: no reconcile, sync of one CA or sync of all CAs changes the status
\* of a certificate that is revoked.
C18_RevokedIsSticky ==
  [][ \A sn \in Kept : certs[sn].status = "revoked" => certs'[sn].status = "revoked" ]_vars
C18_Witness ==
  /\ last.op = "syncAll"
  /\ cas["ca1"].lastSyncedAt = Now
  /\ "01" \in DOMAIN certs
  /\ certs["01"].status = "revoked"
  /\ certs["01"].validTo = CertRecords["certA"].NotAfter
  /\ certs["01"].validTo < last.req.now

\* C19: every status change the reconciler makes is active -> expiring,
\* active -> expired or expiring -> expired.
Downward == { << "active", "expiring" >>, << "active", "expired" >>, << "expiring", "expired" >> }
C19_ReconcileOnlyDownward ==
  [][ Swept =>
        \A sn \in Kept :
          certs'[sn].status # certs[sn].status
            => << certs[sn].status, certs'[sn].status >> \in Downward ]_vars

\* C20: at the instant now the reconciler turns an active certificate with
\* validTo = now + 30 days into expiring and leaves one with validTo one
\* second later active; a certificate that is not revoked with validTo < now
\* becomes expired, and one with validTo = now does not become expired.
C20_Boundaries ==
  [][ Reconciled =>
        \A sn \in Kept :
          LET c == certs[sn]
              after == certs'[sn].status
          IN /\ (c.status = "active" /\ c.validTo = clock + ExpiringDays * Day)
                  => after = "expiring"
             /\ (c.status = "active" /\ c.validTo = clock + ExpiringDays * Day + 1)
                  => after = "active"
             /\ (c.status # "revoked" /\ c.validTo < clock) => after = "expired"
             /\ (c.status # "expired" /\ c.validTo = clock) => after # "expired" ]_vars
C20_Witness ==
  /\ last.op = "reconcile"
  /\ DOMAIN certs = {"01"}
  /\ certs["01"].validTo = last.req.now + ExpiringDays * Day
  /\ certs["01"].status = "expiring"
  /\ last.result.totalUpdated = 1

\* ------------------------------------------- notification settings
\* The settings collection starts empty.  GET /api/settings creates the
\* default document, PUT /api/settings changes the fields the body carries.
DefaultThresholds ==
  << [days |-> 90, enabled |-> TRUE], [days |-> 60, enabled |-> TRUE],
     [days |-> 30, enabled |-> TRUE], [days |-> 14, enabled |-> TRUE],
     [days |-> 7, enabled |-> TRUE], [days |-> 1, enabled |-> TRUE] >>
RecipientTypeEnum == {"role", "user", "email"}

getNotificationSettings ==
  /\ settings' = IF settings = << >>
                   THEN << [enabled |-> FALSE, thresholds |-> DefaultThresholds,
                            recipients |-> << >>] >>
                 ELSE settings
  /\ last' = Respond("getSettings", [id |-> NoId], 200, "", NoCall)
  /\ UNCHANGED <<csr, servers, cas, certs, clock, outbox, ps, auth, run>>

\* smtp in the body stands for an smtpConfig with host and from, which the
\* schema requires of a new document
updateNotificationSettings(updates) ==
  LET base == IF settings = << >>
                THEN [enabled |-> TRUE, thresholds |-> DefaultThresholds, recipients |-> << >>]
              ELSE settings[1]
      doc == [enabled |-> Field(updates, "enabled", base.enabled),
              thresholds |-> Field(updates, "thresholds", base.thresholds),
              recipients |-> Field(updates, "recipients", base.recipients)]
      valid == /\ settings # << >> \/ "smtp" \in DOMAIN updates
               /\ \A i \in 1..Len(doc.recipients) :
                    doc.recipients[i].type \in RecipientTypeEnum /\ doc.recipients[i].value # ""
  IN /\ IF valid
          THEN settings' = << doc >> /\ last' = Respond("putSettings", updates, 200, "", NoCall)
        ELSE /\ settings' = settings
             /\ last' = Respond("putSettings", updates, 500,
                                "Failed to update notification settings", NoCall)
     /\ UNCHANGED <<csr, servers, cas, certs, clock, outbox, ps, auth, run>>

SettingsBodies ==
  { [smtp |-> TRUE],
    [enabled |-> TRUE],
    [enabled |-> FALSE],
    [thresholds |-> << [days |-> 30, enabled |-> FALSE] >>],
    [thresholds |-> << [days |-> 30, enabled |-> TRUE] >>],
    [recipients |-> << [type |-> "email", value |-> "ops@x"] >>],
    [recipients |-> << [type |-> "user", value |-> "nobody"] >>],
    [recipients |-> << [type |-> "group", value |-> "ops"] >>] }
NotifyStores ==
  { st \in LifecycleStores :
      \A sn \in DOMAIN st : st[sn].status = "active" /\ st[sn].validTo \in {ExpiringDays * Day, 45 * Day} }
NotifyInit ==
  /\ csr = << >>
  /\ servers = InitServers
  /\ cas = InitCAs
  /\ certs \in NotifyStores
  /\ last = Respond("none", [id |-> NoId], 0, "", NoCall)
  /\ clock = 0
  /\ outbox = << >>
  /\ ps = Idle
  /\ settings = << >>
  /\ auth = NoAuth
  /\ run = NoRun
GetNotificationSettings == getNotificationSettings
UpdateNotificationSettings == \E updates \in SettingsBodies : updateNotificationSettings(updates)
NotifyNext ==
  \/ Tick
  \/ GetNotificationSettings
  \/ UpdateNotificationSettings
  \/ SendExpirationNotifications
NotifySpec == NotifyInit /\ [][NotifyNext]_vars

\* ------------------------------------------- refresh tokens
\* A refresh token is the JWT of { userId, type: 'refresh' } with iat and exp
\* in seconds, signed with one secret: the text is determined by the user and
\* the second it was issued in, so it is modelled as << userId, iat >>.
\* auth.tokens is the RefreshToken collection, keyed by the token (unique
\* index); auth.exchanged records the tokens a refresh call was answered 200 for.
RefreshDays == 7
ExpireAfterSeconds == 86400
AuthUsers == {"u1", "u2"}
AuthClockValues == {0, 2 * Day, (RefreshDays + 1) * Day + 1}
NoToken == << >>
generateRefreshToken(user, now) == << user, now >>
\* jwt.verify: the signature is the program's own; the token is refused from
\* its exp on
verifyRefreshToken(token, now) == now < token[2] + RefreshDays * Day
StoredToken(user, now) ==
  [userId |-> user, expiresAt |-> now + RefreshDays * Day, revoked |-> FALSE]
\* RefreshToken.create
CreateToken(store, token, doc) == [t \in DOMAIN store \cup {token} |-> IF t = token THEN doc ELSE store[t]]
\* RefreshToken.updateMany({ userId }, { revoked: true })
RevokeAll(store, user) ==
  [t \in DOMAIN store |-> IF store[t].userId = user THEN [store[t] EXCEPT !.revoked = TRUE]
                          ELSE store[t]]

\* authenticated says whether the directory accepted the credentials
login(user, authenticated) ==
  /\ LET R(code, error) == Respond("login", [user |-> user], code, error, NoCall)
         token == generateRefreshToken(user, clock)
     IN IF ~authenticated
          THEN auth' = auth /\ last' = R(401, "Invalid credentials")
        ELSE IF token \in DOMAIN auth.tokens
          THEN auth' = auth /\ last' = R(500, "Login failed")
        ELSE /\ auth' = [auth EXCEPT !.tokens = CreateToken(@, token, StoredToken(user, clock))]
             /\ last' = R(200, "")
  /\ UNCHANGED <<csr, servers, cas, certs, clock, outbox, ps, settings, run>>

refresh(refreshToken) ==
  /\ LET R(code, error) == Respond("refresh", [token |-> refreshToken], code, error, NoCall)
         store == auth.tokens
     IN IF refreshToken = NoToken
          THEN auth' = auth /\ last' = R(400, "Refresh token is required")
        ELSE IF refreshToken \notin DOMAIN store
          THEN auth' = auth /\ last' = R(401, "Invalid refresh token")
        ELSE IF store[refreshToken].revoked
          THEN /\ auth' = [auth EXCEPT !.tokens = RevokeAll(@, store[refreshToken].userId)]
               /\ last' = R(401, "Invalid refresh token")
        ELSE IF ~verifyRefreshToken(refreshToken, clock)
          THEN auth' = auth /\ last' = R(401, "Invalid refresh token")
        ELSE LET user == refreshToken[1]
                 revoked == [store EXCEPT ![refreshToken].revoked = TRUE]
                 newRefreshToken == generateRefreshToken(user, clock)
             IN IF newRefreshToken \in DOMAIN revoked
                  THEN /\ auth' = [auth EXCEPT !.tokens = revoked]
                       /\ last' = R(401, "Invalid refresh token")
                ELSE /\ auth' = [auth EXCEPT
                                   !.tokens = CreateToken(revoked, newRefreshToken,
                                                          StoredToken(user, clock)),
                                   !.exchanged = @ \cup {refreshToken}]
                     /\ last' = R(200, "")
  /\ UNCHANGED <<csr, servers, cas, certs, clock, outbox, ps, settings, run>>

\* stored says whether updateMany went through; when it throws, the catch
\* answers the same message.  auth.loggedOut records the user's tokens at a
\* logout that was answered
logout(user, stored) ==
  /\ LET mine == {t \in DOMAIN auth.tokens : auth.tokens[t].userId = user} IN
     auth' = [auth EXCEPT !.tokens = IF stored THEN RevokeAll(@, user) ELSE @,
                          !.loggedOut = @ \cup mine]
  /\ last' = Respond("logout", [user |-> user, stored |-> stored], 200,
                     "Logged out successfully", NoCall)
  /\ UNCHANGED <<csr, servers, cas, certs, clock, outbox, ps, settings, run>>

\* the TTL index on expiresAt: the store removes a token once expiresAt lies
\* more than expireAfterSeconds back
Expired(doc) == doc.expiresAt + ExpireAfterSeconds < clock
ExpireTokens ==
  /\ \E t \in DOMAIN auth.tokens : Expired(auth.tokens[t])
  /\ LET kept == {x \in DOMAIN auth.tokens : ~Expired(auth.tokens[x])} IN
     \* the logout record of a removed token goes with it: a token absent from
     \* the collection is refused whatever happened to it before
     auth' = [auth EXCEPT !.tokens = [t \in kept |-> auth.tokens[t]],
                          !.loggedOut = @ \cap kept]
  /\ last' = Respond("expireTokens", [id |-> NoId], 0, "", NoCall)
  /\ UNCHANGED <<csr, servers, cas, certs, clock, outbox, ps, settings, run>>

AuthTick ==
  /\ \E t \in AuthClockValues : t > clock /\ clock' = t
  /\ UNCHANGED <<csr, servers, cas, certs, last, outbox, ps, settings, auth, run>>
Login == \E user \in AuthUsers, authenticated \in BOOLEAN : login(user, authenticated)
Refresh ==
  \E token \in {NoToken} \cup {generateRefreshToken(u, t) : u \in AuthUsers, t \in AuthClockValues} :
    refresh(token)
Logout == \E user \in AuthUsers, stored \in BOOLEAN : logout(user, stored)
AuthNext ==
  \/ AuthTick
  \/ Login
  \/ Refresh
  \/ Logout
  \/ ExpireTokens
AuthSpec == Init /\ [][AuthNext]_vars

\* ------------------------------------------- stored hash algorithms
\* generateCSR on documents as the collection may hold them, whichever way
\* they were written: with a hashAlgorithm of the schema's enum, with SHA1,
\* and with one outside SAFE_HASH_ALGORITHMS
StoredHashAlgorithms == {"SHA256", "SHA1", "MD5"}
StoredHashInit ==
  /\ \E h \in StoredHashAlgorithms, server \in {NoId, "s1"} :
       csr = << [NewDoc([commonName |-> GoodCN, targetServerId |-> server,
                         targetCAId |-> "ca1"], "alice")
                 EXCEPT !.hashAlgorithm = h] >>
  /\ servers = InitServers
  /\ cas = InitCAs
  /\ certs = [sn \in {} |-> NoId]
  /\ last = Respond("none", [id |-> NoId], 0, "", NoCall)
  /\ clock = 0
  /\ outbox = << >>
  /\ ps = Idle
  /\ settings = << >>
  /\ auth = NoAuth
  /\ run = NoRun
StoredHashNext == GenerateCSR \/ SubmitCSRToCA \/ DeleteCSR
StoredHashSpec == StoredHashInit /\ [][StoredHashNext]_vars

\* ------------------------------------------- subject fields
\* generateCSR on drafts whose commonName and organization are drawn from
\* texts with each kind of character, at each length around the limit
\* the character U+0060, which a string of this notation cannot hold
Backtick == "backtick"
SubjectChars == {"a", "Z", "9", " ", ".", ",", "_", "@", "(", ")", "-",
                 ";", "\"", "'", Backtick, "$"}
SubjectTexts ==
  {<< c >> : c \in SubjectChars} \cup {<< "a", c, "b" >> : c \in SubjectChars}
    \cup {[i \in 1..SubjectMaxLen |-> "a"], LongCN}
SubjectInit ==
  /\ \E cn \in SubjectTexts, org \in SubjectTexts \cup {NoText} :
       csr = << NewDoc([commonName |-> cn,
                        subject |-> [EmptySubject EXCEPT !.organization = org]], "alice") >>
  /\ servers = InitServers
  /\ cas = InitCAs
  /\ certs = [sn \in {} |-> NoId]
  /\ last = Respond("none", [id |-> NoId], 0, "", NoCall)
  /\ clock = 0
  /\ outbox = << >>
  /\ ps = Idle
  /\ settings = << >>
  /\ auth = NoAuth
  /\ run = NoRun
SubjectSpec == SubjectInit /\ [][GenerateCSR]_vars

\* ------------------------------------------- quoting of string parameters
\* function sanitizePSString: value.replace(/'/g, "''")
RECURSIVE sanitizePSString(_)
sanitizePSString(value) ==
  IF value = << >> THEN << >>
  ELSE (IF Head(value) = "'" THEN << "'", "'" >> ELSE << Head(value) >>)
         \o sanitizePSString(Tail(value))
\* the text a string parameter is embedded as: '${sanitizePSString(String(value))}'
EmbedString(value) == << "'" >> \o sanitizePSString(value) \o << "'" >>

\* How powershell.exe -Command reads a single-quoted literal.  Its tokenizer
\* takes the apostrophe and the typographic quotes U+2018, U+2019, U+201A and
\* U+201B alike as the single quote: two in a row stand for one character of
\* the value, one alone ends the literal.  A string of this notation cannot
\* hold these characters; they are written by their code points.
SingleQuotes == {"'", "U+2018", "U+2019", "U+201A", "U+201B"}
RECURSIVE ScanLiteral(_, _)
ScanLiteral(text, value) ==
  IF text = << >> THEN [value |-> value, rest |-> << >>, closed |-> FALSE]
  ELSE IF Head(text) \in SingleQuotes
    THEN IF Len(text) >= 2 /\ text[2] \in SingleQuotes
           THEN ScanLiteral(Tail(Tail(text)), Append(value, Head(text)))
         ELSE [value |-> value, rest |-> Tail(text), closed |-> TRUE]
  ELSE ScanLiteral(Tail(text), Append(value, Head(text)))
ReadLiteral(text) == ScanLiteral(Tail(text), << >>)

\* the string values a parameter may carry: texts of letters, separators,
\* apostrophes and typographic quotes
MaxQuoteLen == 4
QuoteChars == {"a", "'", "U+2019"}
QuoteTexts == UNION {[1..n -> QuoteChars] : n \in 0..MaxQuoteLen}
EmbedParameter ==
  /\ \E value \in QuoteTexts :
       last' = Respond("embed", [value |-> value], 0, "",
                       [literal |-> EmbedString(value),
                        read |-> ReadLiteral(EmbedString(value))])
  /\ UNCHANGED <<csr, servers, cas, certs, clock, outbox, ps, settings, auth, run>>
QuoteSpec == Init /\ [][EmbedParameter]_vars

\* ------------------------------------------- concurrent writers
\* One reconcile run, one dispatch run, one sync and one bind on the same
\* Certificate document.  Every awaited store call is a step of its own; the
\* steps of the four interleave freely.  run holds each writer's position and
\* the document it loaded; run.v is the stored document's __v.
OldSite == << "O", "l", "d" >>
TheSerial == "01"
ConcurrencySettings ==
  [enabled |-> TRUE, thresholds |-> << [days |-> 30, enabled |-> TRUE] >>,
   recipients |-> << [type |-> "email", value |-> "ops@x"] >>]
ConcurrencyStores ==
  { [sn \in {TheSerial} |->
       [StoredCert(TheSerial, "active", ExpiringDays * Day) EXCEPT !.deployedTo = d]] :
      d \in { << >>,
              << [serverId |-> "s1", serverName |-> GoodFqdn,
                  binding |-> [type |-> "IIS", siteName |-> OldSite, port |-> DefaultPort],
                  deployedAt |-> Now] >> } }

ConcurrencyInit ==
  /\ csr = << >>
  /\ servers = InitServers
  /\ cas = InitCAs
  /\ certs \in ConcurrencyStores
  /\ last = Respond("none", [id |-> NoId], 0, "", NoCall)
  /\ clock = 0
  /\ outbox = << >>
  /\ ps = Idle
  /\ settings = << ConcurrencySettings >>
  /\ auth = NoAuth
  /\ run = NoRun

\* updateCertificateStatuses: the three updateMany calls, one per step
ReconcileStep ==
  /\ run.rec.pc < 3
  /\ LET pc == run.rec.pc
         after == IF pc = 0 THEN UpdateMany(certs, LAMBDA c : ExpiredFilter(c, clock), "expired")
                  ELSE IF pc = 1
                    THEN UpdateMany(certs, LAMBDA c : ExpiringFilter(c, clock), "expiring")
                  ELSE UpdateMany(certs, LAMBDA c : ActiveFilter(c, clock), "active")
     IN /\ certs' = after
        /\ run' = [run EXCEPT !.rec.pc = pc + 1,
                              !.rec.wrote = IF after[TheSerial].status # certs[TheSerial].status
                                              THEN << after[TheSerial].status >> ELSE @]
  /\ UNCHANGED <<csr, servers, cas, last, clock, outbox, ps, settings, auth>>

\* sendExpirationNotifications up to the find of the one enabled threshold
DispatchFind ==
  /\ run.disp.pc = "idle"
  /\ LET days == EnabledThresholds(settings[1])[1]
         expiringCerts == findCertificatesExpiringInDays(certs, clock, days)
     IN run' = IF expiringCerts = << >> THEN [run EXCEPT !.disp.pc = "done"]
               ELSE [run EXCEPT !.disp.pc = "found", !.disp.doc = << certs[expiringCerts[1]] >>]
  /\ UNCHANGED <<csr, servers, cas, certs, last, clock, outbox, ps, settings, auth>>

\* the alreadySent test on the loaded document and the sendMail call
DispatchSend ==
  /\ run.disp.pc = "found"
  /\ LET days == EnabledThresholds(settings[1])[1]
         cert == run.disp.doc[1]
     IN IF AlreadySent(cert, days)
          THEN outbox' = outbox /\ run' = [run EXCEPT !.disp.pc = "done"]
        ELSE \E ok \in BOOLEAN :
               IF ok THEN /\ outbox' = Append(outbox, [serialNumber |-> cert.serialNumber,
                                                       days |-> days])
                          /\ run' = [run EXCEPT !.disp.pc = "mailed", !.disp.mailed = TRUE]
               ELSE outbox' = outbox /\ run' = [run EXCEPT !.disp.pc = "done"]
  /\ UNCHANGED <<csr, servers, cas, certs, last, clock, ps, settings, auth>>

\* notificationsSent.push and cert.save(): the save sends $push of the new
\* entry and $inc of __v
DispatchSave ==
  /\ run.disp.pc = "mailed"
  /\ LET days == EnabledThresholds(settings[1])[1]
         sn == run.disp.doc[1].serialNumber
     IN certs' = [certs EXCEPT ![sn].notificationsSent =
                    Append(@, [type |-> TypeOf(days), sentAt |-> Now,
                               recipients |-> resolveRecipients(settings[1].recipients)])]
  /\ run' = [run EXCEPT !.disp.pc = "done", !.v = @ + 1]
  /\ UNCHANGED <<csr, servers, cas, last, clock, outbox, ps, settings, auth>>

\* syncCA of one CA that reports the certificate: one findOneAndUpdate
SyncUpsert ==
  /\ run.sync = "idle"
  /\ LET st == syncCA([certs |-> certs, cas |-> cas, trace |-> << >>], "ca1",
                      Proc("exit0", << "[", "certB", "]" >>, << >>))
     IN certs' = st.certs /\ cas' = st.cas
  /\ run' = [run EXCEPT !.sync = "done"]
  /\ UNCHANGED <<csr, servers, last, clock, outbox, ps, settings, auth>>

\* bindCertificate up to Certificate.findOne({ thumbprint })
BindLoad ==
  /\ run.bind.pc = "idle"
  /\ \E proc \in {Proc("exit0", << "P" >>, << >>), Proc("exit1", << >>, << "E" >>)} :
       LET id == "s1"
           R(code, error, res) ==
             Respond("bind", [id |-> id, siteName |-> GoodSite, thumbprint |-> ThumbprintA],
                     code, error, res)
           result == bindIISCertificate(servers[id].fqdn, GoodSite, ThumbprintA, DefaultPort, proc)
       IN IF result.threw \/ ~result.success
            THEN /\ last' = R(500, "Failed to bind certificate", result)
                 /\ run' = [run EXCEPT !.bind.pc = "done"]
          ELSE IF FindByThumbprint(ThumbprintA) = {}
            THEN /\ last' = R(200, "", result)
                 /\ run' = [run EXCEPT !.bind.pc = "done", !.bind.bound = TRUE]
          ELSE LET sn == CHOOSE x \in FindByThumbprint(ThumbprintA) : TRUE IN
               /\ last' = last
               /\ run' = [run EXCEPT !.bind.pc = "loaded", !.bind.doc = << certs[sn] >>,
                                     !.bind.v = run.v, !.bind.bound = TRUE]
  /\ UNCHANGED <<csr, servers, cas, certs, clock, outbox, ps, settings, auth>>

\* the change of deployedTo and cert.save().  A pushed entry is saved as $push
\* with $inc of __v.  A changed element is saved as $set of deployedTo.<i>
\* under the condition that __v is still the loaded one; if it is not, save
\* throws VersionError and the handler answers 500
BindSave ==
  /\ run.bind.pc = "loaded"
  /\ LET id == "s1"
         R(code, error) ==
           Respond("bind", [id |-> id, siteName |-> GoodSite, thumbprint |-> ThumbprintA],
                   code, error, NoCall)
         cert == run.bind.doc[1]
         sn == cert.serialNumber
         changed == BindDeployment(cert, id, GoodSite, DefaultPort)
         pushed == Len(changed.deployedTo) > Len(cert.deployedTo)
         bound == servers' = [servers EXCEPT ![id].certificates = @ \cup {sn}]
     IN IF pushed
          THEN /\ certs' = [certs EXCEPT ![sn].deployedTo =
                              Append(@, changed.deployedTo[Len(changed.deployedTo)])]
               /\ run' = [run EXCEPT !.bind.pc = "done", !.v = @ + 1]
               /\ bound
               /\ last' = R(200, "")
        ELSE IF run.v # run.bind.v
          THEN /\ certs' = certs
               /\ servers' = servers
               /\ run' = [run EXCEPT !.bind.pc = "done"]
               /\ last' = R(500, "Failed to bind certificate")
        ELSE /\ certs' = [certs EXCEPT ![sn].deployedTo = changed.deployedTo]
             /\ run' = [run EXCEPT !.bind.pc = "done"]
             /\ bound
             /\ last' = R(200, "")
  /\ UNCHANGED <<csr, cas, clock, outbox, ps, settings, auth>>

ConcurrencyNext ==
  \/ ReconcileStep
  \/ DispatchFind
  \/ DispatchSend
  \/ DispatchSave
  \/ SyncUpsert
  \/ BindLoad
  \/ BindSave
ConcurrencySpec == ConcurrencyInit /\ [][ConcurrencyNext]_vars

\* ------------------------------------------- overlapping dispatch runs
\* runNotificationCheckNow awaits the same sendExpirationNotifications as the
\* scheduled job; nothing keeps the two from running at once.  run.manual is
\* the position of the manual run, run.disp that of the scheduled one.
ManualFind ==
  /\ run.manual.pc = "idle"
  /\ LET days == EnabledThresholds(settings[1])[1]
         expiringCerts == findCertificatesExpiringInDays(certs, clock, days)
     IN run' = IF expiringCerts = << >> THEN [run EXCEPT !.manual.pc = "done"]
               ELSE [run EXCEPT !.manual.pc = "found",
                                !.manual.doc = << certs[expiringCerts[1]] >>]
  /\ UNCHANGED <<csr, servers, cas, certs, last, clock, outbox, ps, settings, auth>>
ManualSend ==
  /\ run.manual.pc = "found"
  /\ LET days == EnabledThresholds(settings[1])[1]
         cert == run.manual.doc[1]
     IN IF AlreadySent(cert, days)
          THEN outbox' = outbox /\ run' = [run EXCEPT !.manual.pc = "done"]
        ELSE \E ok \in BOOLEAN :
               IF ok THEN /\ outbox' = Append(outbox, [serialNumber |-> cert.serialNumber,
                                                       days |-> days])
                          /\ run' = [run EXCEPT !.manual.pc = "mailed", !.manual.mailed = TRUE]
               ELSE outbox' = outbox /\ run' = [run EXCEPT !.manual.pc = "done"]
  /\ UNCHANGED <<csr, servers, cas, certs, last, clock, ps, settings, auth>>
ManualSave ==
  /\ run.manual.pc = "mailed"
  /\ LET days == EnabledThresholds(settings[1])[1]
         sn == run.manual.doc[1].serialNumber
     IN certs' = [certs EXCEPT ![sn].notificationsSent =
                    Append(@, [type |-> TypeOf(days), sentAt |-> Now,
                               recipients |-> resolveRecipients(settings[1].recipients)])]
  /\ run' = [run EXCEPT !.manual.pc = "done", !.v = @ + 1]
  /\ UNCHANGED <<csr, servers, cas, last, clock, outbox, ps, settings, auth>>
OverlapNext ==
  \/ ReconcileStep
  \/ SyncUpsert
  \/ DispatchFind
  \/ DispatchSend
  \/ DispatchSave
  \/ ManualFind
  \/ ManualSend
  \/ ManualSave
OverlapSpec == ConcurrencyInit /\ [][OverlapNext]_vars

\* ------------------------------------------- delete against submit
\* One deleteCSR call and one submitCSRToCA call on the same CSR.  Every
\* awaited store call is a step of its own.  run.del and run.sub are the
\* positions of the two handlers, run.sub.doc the document submit works on.
\* deleteCSR up to the status check on the loaded document
DeleteLoad ==
  /\ run.del.pc = "idle"
  /\ LET R(code, error) == Respond("delete", [id |-> TheId], code, error, NoCall) IN
     IF ~Found(TheId)
       THEN last' = R(404, "CSR request not found") /\ run' = [run EXCEPT !.del.pc = "done"]
     ELSE IF ~DeleteAllowed(Doc)
       THEN /\ last' = R(400, "Cannot delete submitted CSR")
            /\ run' = [run EXCEPT !.del.pc = "done"]
     ELSE last' = last /\ run' = [run EXCEPT !.del.pc = "checked"]
  /\ UNCHANGED <<csr, servers, cas, certs, clock, outbox, ps, settings, auth>>
\* csr.deleteOne(): removes the document with this _id, whatever it holds now
DeleteRemove ==
  /\ run.del.pc = "checked"
  /\ csr' = << >>
  /\ last' = Respond("delete", [id |-> TheId], 200, "", NoCall)
  /\ run' = [run EXCEPT !.del.pc = "done"]
  /\ UNCHANGED <<servers, cas, certs, clock, outbox, ps, settings, auth>>
\* submitCSRToCA up to the checks on the loaded document
SubmitLoad ==
  /\ run.sub.pc = "idle"
  /\ LET R(code, error) == Respond("submit", [id |-> TheId], code, error, NoCall) IN
     IF ~Found(TheId)
       THEN last' = R(404, "CSR request not found") /\ run' = [run EXCEPT !.sub.pc = "done"]
     ELSE IF SubmitRefusal(Doc) # ""
       THEN last' = R(400, SubmitRefusal(Doc)) /\ run' = [run EXCEPT !.sub.pc = "done"]
     ELSE last' = last /\ run' = [run EXCEPT !.sub.pc = "loaded", !.sub.doc = << Doc >>]
  /\ UNCHANGED <<csr, servers, cas, certs, clock, outbox, ps, settings, auth>>
\* status = 'submitted' and the first csr.save(); a save of a document that
\* is no longer stored throws and the handler answers 500
SubmitSave ==
  /\ run.sub.pc = "loaded"
  /\ LET started == SubmitStart(run.sub.doc[1]) IN
     IF csr = << >>
       THEN /\ csr' = csr
            /\ last' = Respond("submit", [id |-> TheId], 500, "Failed to submit CSR", NoCall)
            /\ run' = [run EXCEPT !.sub.pc = "done"]
     ELSE /\ csr' = << [Doc EXCEPT !.status = started.status,
                                   !.workflowSteps = started.workflowSteps] >>
          /\ last' = last
          /\ run' = [run EXCEPT !.sub.pc = "saved", !.sub.doc = << started >>]
  /\ UNCHANGED <<servers, cas, certs, clock, outbox, ps, settings, auth>>
\* the submitCSR call and the second csr.save()
SubmitCall ==
  /\ run.sub.pc = "saved"
  /\ \E proc \in GatewayProcOutcomes :
       LET started == run.sub.doc[1]
           result == submitCSR(<< TheId >>, cas[started.targetCAId].configString,
                               TemplateOf(started), proc)
           R(code, error) == Respond("submit", [id |-> TheId], code, error, result)
       IN IF result.threw \/ csr = << >>
            THEN csr' = csr /\ last' = R(500, "Failed to submit CSR")
          ELSE /\ csr' = << SubmitFinish(started, result) >>
               /\ last' = R(IF result.success THEN 200 ELSE 500,
                            IF result.success THEN "" ELSE "Failed to submit CSR")
  /\ run' = [run EXCEPT !.sub.pc = "done"]
  /\ UNCHANGED <<servers, cas, certs, clock, outbox, ps, settings, auth>>
\* a handler addresses the document that exists when it is called
NoHandler == run.del.pc = "idle" /\ run.sub.pc = "idle"
RaceNext ==
  \/ NoHandler /\ GwCreateCSR
  \/ NoHandler /\ GwGenerateCSR
  \/ DeleteLoad
  \/ DeleteRemove
  \/ SubmitLoad
  \/ SubmitSave
  \/ SubmitCall
RaceSpec == Init /\ [][RaceNext]_vars

\* ------------------------------------------- concurrent refresh calls
\* Two refresh calls, each a sequence of awaited store calls: findOne with
\* the tests on the loaded document, storedToken.save(), RefreshToken.create.
\* run.ref[p] is the position of call p, the token it presented, whether it
\* was answered with new tokens and the second its new token was issued in.
\* The clock moves by seconds, up to MaxSeconds.
MaxSeconds == 2
RefreshLoad(p) ==
  /\ run.ref[p].pc = "idle"
  /\ \E refreshToken \in DOMAIN auth.tokens :
       LET R(code, error) ==
             Respond("refresh", [token |-> refreshToken, call |-> p], code, error, NoCall)
           store == auth.tokens
           done == [run EXCEPT !.ref[p].pc = "done", !.ref[p].token = refreshToken]
       IN IF store[refreshToken].revoked
            THEN /\ auth' = [auth EXCEPT !.tokens = RevokeAll(@, store[refreshToken].userId)]
                 /\ last' = R(401, "Invalid refresh token")
                 /\ run' = done
          ELSE IF ~verifyRefreshToken(refreshToken, clock)
            THEN auth' = auth /\ last' = R(401, "Invalid refresh token") /\ run' = done
          ELSE /\ auth' = auth
               /\ last' = last
               /\ run' = [run EXCEPT !.ref[p].pc = "loaded", !.ref[p].token = refreshToken]
  /\ UNCHANGED <<csr, servers, cas, certs, clock, outbox, ps, settings>>
\* storedToken.revoked = true and save(): $set on the document with this _id
RefreshRevoke(p) ==
  /\ run.ref[p].pc = "loaded"
  /\ auth' = [auth EXCEPT !.tokens[run.ref[p].token].revoked = TRUE]
  /\ run' = [run EXCEPT !.ref[p].pc = "revoked"]
  /\ UNCHANGED <<csr, servers, cas, certs, last, clock, outbox, ps, settings>>
\* generateRefreshToken at the current second and RefreshToken.create; the
\* unique index on token rejects a token that is already stored, the catch
\* answers 401
RefreshCreate(p) ==
  /\ run.ref[p].pc = "revoked"
  /\ LET refreshToken == run.ref[p].token
         R(code, error) ==
           Respond("refresh", [token |-> refreshToken, call |-> p], code, error, NoCall)
         user == refreshToken[1]
         newRefreshToken == generateRefreshToken(user, clock)
     IN IF newRefreshToken \in DOMAIN auth.tokens
          THEN /\ auth' = auth
               /\ last' = R(401, "Invalid refresh token")
               /\ run' = [run EXCEPT !.ref[p].pc = "done"]
        ELSE /\ auth' = [auth EXCEPT
                           !.tokens = CreateToken(@, newRefreshToken, StoredToken(user, clock)),
                           !.exchanged = @ \cup {refreshToken}]
             /\ last' = R(200, "")
             /\ run' = [run EXCEPT !.ref[p].pc = "done", !.ref[p].ok = TRUE,
                                   !.ref[p].at = clock]
  /\ UNCHANGED <<csr, servers, cas, certs, clock, outbox, ps, settings>>
SecondTick ==
  /\ clock < MaxSeconds
  /\ clock' = clock + 1
  /\ UNCHANGED <<csr, servers, cas, certs, last, outbox, ps, settings, auth, run>>
RefreshRaceNext ==
  \/ SecondTick
  \/ Login
  \/ \E p \in {1, 2} : RefreshLoad(p)
  \/ \E p \in {1, 2} : RefreshRevoke(p)
  \/ \E p \in {1, 2} : RefreshCreate(p)
RefreshRaceSpec == Init /\ [][RefreshRaceNext]_vars

\* ------------------------------------------- scheduler
\* run.sched holds the two module variables notificationJob and syncJob
\* (<< >> is null), the tasks node-cron has scheduled and not stopped, and the
\* number of initializeScheduler calls so far.  A task is << kind, n >>, n
\* the call that created it.
MaxInits == 5
initializeScheduler ==
  /\ run.sched.inits < MaxInits
  /\ LET n == run.sched.inits + 1
         notification == << "notification", n >>
         sync == << "sync", n >>
     IN run' = [run EXCEPT !.sched.notificationJob = notification,
                           !.sched.syncJob = sync,
                           !.sched.active = @ \cup {notification, sync},
                           !.sched.inits = n]
  /\ last' = Respond("initializeScheduler", [id |-> NoId], 0, "", NoCall)
  /\ UNCHANGED <<csr, servers, cas, certs, clock, outbox, ps, settings, auth>>
stopScheduler ==
  /\ LET sched == run.sched
         stopped == (IF sched.notificationJob # << >> THEN {sched.notificationJob} ELSE {})
                      \cup (IF sched.syncJob # << >> THEN {sched.syncJob} ELSE {})
     IN run' = [run EXCEPT !.sched.notificationJob = << >>,
                           !.sched.syncJob = << >>,
                           !.sched.active = @ \ stopped]
  /\ last' = Respond("stopScheduler", [id |-> NoId], 0, "", NoCall)
  /\ UNCHANGED <<csr, servers, cas, certs, clock, outbox, ps, settings, auth>>
ActiveJobs(kind) == {job \in run.sched.active : job[1] = kind}
\* a cron instant: every scheduled task of the kind starts its callback, a
\* run of sendExpirationNotifications or of syncAllCAs; started is their
\* number
CronFires(kind) ==
  /\ ActiveJobs(kind) # {}
  /\ last' = Respond("cron", [kind |-> kind], 0, "",
                     [started |-> Cardinality(ActiveJobs(kind))])
  /\ UNCHANGED <<csr, servers, cas, certs, clock, outbox, ps, settings, auth, run>>
SchedulerNext ==
  \/ initializeScheduler
  \/ stopScheduler
  \/ CronFires("notification")
  \/ CronFires("sync")
SchedulerSpec == Init /\ [][SchedulerNext]_vars

\* ---- synchronisation
Synced == last'.op \in {"sync", "syncAll"} /\ clock' = clock

EnabledCAs == SelectSeq(CAOrder, LAMBDA id : cas[id].syncEnabled)
C22_SweepVisitsEveryCA ==
  [][ (last'.op = "syncAll" /\ clock' = clock) =>
        LET trace == last'.result.trace IN
        /\ Len(trace) = Len(EnabledCAs) + 1
        /\ \A i \in 1..Len(EnabledCAs) :
             trace[i].event = "syncCA" /\ trace[i].ca = EnabledCAs[i]
        /\ trace[Len(trace)].event = "updateCertificateStatuses"
        /\ \A id \in DOMAIN cas : ~cas[id].syncEnabled => cas'[id] = cas[id] ]_vars
C22_Witness ==
  /\ last.op = "syncAll"
  /\ Len(last.result.trace) = 3
  /\ ~last.result.trace[1].ok
  /\ last.result.trace[2].ok
  /\ last.result.trace[2].ca = "ca1"
  /\ cas["ca1"].lastSyncedAt = Now
  /\ cas["ca3"].lastSyncedAt = NoDate

\* C23: if the gateway call of a sync fails (an invalid configString
\* included) or its output holds anything but certificate records, the sync
\* fails with an error, upserts nothing and leaves the CA's lastSyncedAt.
SyncedOne == last'.op = "sync" /\ last'.req.id \in DOMAIN cas
HoldsRecords(output) ==
  \/ Len(output) = 1 /\ IsRecord(output[1])
  \/ /\ Len(output) >= 2 /\ output[1] = "[" /\ output[Len(output)] = "]"
     /\ \A i \in 2..(Len(output) - 1) : IsRecord(output[i])
C23_NonRecordsFail ==
  [][ (SyncedOne /\ (~last'.result.success \/ ~HoldsRecords(last'.result.output)))
        => (last'.code = 500 /\ certs' = certs /\ cas' = cas) ]_vars
\* the part that holds: a failed gateway call, or output JSON.parse rejects
UnparsableChangesNothing ==
  [][ (SyncedOne /\ (~last'.result.success \/ ~JSONParses(last'.result.output)))
        => (last'.code = 500 /\ certs' = certs /\ cas' = cas) ]_vars

\* ---- concurrent writers
AllDone ==
  /\ run.rec.pc = 3
  /\ run.disp.pc = "done"
  /\ run.bind.pc = "done"
  /\ run.sync = "done"
DeployedAs(cert, id, siteName) ==
  \E i \in 1..Len(cert.deployedTo) :
    cert.deployedTo[i].serverId = id /\ cert.deployedTo[i].binding.siteName = siteName

\* C24: once a reconcile run, a dispatch run, a sync and a bind on one
\* certificate have all finished, in whatever order their steps ran, the
\* document holds the status the reconciler wrote, the entry of the
\* notification the dispatcher sent and the deployment the bind made.
C24_NoLostUpdate ==
  AllDone =>
    /\ run.rec.wrote # << >> => certs[TheSerial].status = run.rec.wrote[1]
    /\ run.disp.mailed => AlreadySent(certs[TheSerial], 30)
    /\ run.bind.bound => DeployedAs(certs[TheSerial], "s1", GoodSite)
\* the part that holds: a bind that appends a new deployedTo entry
NoLostUpdateOnFirstBind ==
  (AllDone /\ (run.bind.doc = << >> \/ run.bind.doc[1].deployedTo = << >>)) =>
    /\ run.rec.wrote # << >> => certs[TheSerial].status = run.rec.wrote[1]
    /\ run.disp.mailed => AlreadySent(certs[TheSerial], 30)
    /\ run.bind.bound => DeployedAs(certs[TheSerial], "s1", GoodSite)

StoredHashInEnum == csr # << >> => Doc.hashAlgorithm \in HashAlgorithmEnum

\* ---- subject fields
SubjectAllowed ==
  {"A","B","C","D","E","F","G","H","I","J","K","L","M","N","O","P","Q","R","S","T","U","V",
   "W","X","Y","Z","a","b","c","d","e","f","g","h","i","j","k","l","m","n","o","p","q","r",
   "s","t","u","v","w","x","y","z","0","1","2","3","4","5","6","7","8","9",
   " ", ".", ",", "_", "@", "(", ")", "-"}
SubjectForbidden == {";", "\"", "'", Backtick, "$"}
HasForbidden(s) == \E i \in 1..Len(s) : s[i] \in SubjectForbidden
SubjectValues(doc) == {doc.commonName} \cup {doc.subject[f] : f \in DOMAIN doc.subject}

\* C26: validateSubjectField(s) is true exactly when s is non-empty, at most
\* 200 characters long and made of A-Za-z0-9, space and . , _ @ ( ) - only;
\* a value with ; " ' ` or $ is rejected, and generate on a CSR whose
\* commonName or subject field holds one is refused.
C26_SubjectFieldValidator ==
  [][ (Addressed("generate") /\ GenerateAllowed(Doc)) =>
        /\ \A s \in SubjectValues(Doc) :
             /\ validateSubjectField(s)
                  <=> (Len(s) >= 1 /\ Len(s) <= 200 /\ \A i \in 1..Len(s) : s[i] \in SubjectAllowed)
             /\ HasForbidden(s) => ~validateSubjectField(s)
        /\ (\E s \in SubjectValues(Doc) : HasForbidden(s))
             => (last'.code = 400 /\ ~last'.result.called /\ csr' = csr) ]_vars
C26_Witness ==
  /\ last.op = "generate"
  /\ last.code = 400
  /\ csr # << >>
  /\ validateSubjectField(Doc.commonName)
  /\ HasForbidden(Doc.subject.organization)
  /\ Doc.status = "draft"

\* ---- quoting
RECURSIVE Paired(_)
Paired(text) ==
  IF text = << >> THEN TRUE
  ELSE IF Head(text) # "'" THEN Paired(Tail(text))
  ELSE Len(text) >= 2 /\ text[2] = "'" /\ Paired(Tail(Tail(text)))
RECURSIVE Unpair(_)
Unpair(text) ==
  IF text = << >> THEN << >>
  ELSE IF Head(text) = "'" /\ Len(text) >= 2 /\ text[2] = "'"
    THEN << "'" >> \o Unpair(Tail(Tail(text)))
  ELSE << Head(text) >> \o Unpair(Tail(text))
Embedded == last'.op = "embed"

\* C27: sanitizePSString(s) holds apostrophes only in adjacent pairs, and one
\* apostrophe for each pair gives s back; so the literal the gateway embeds
\* for a string parameter is read by the shell as exactly s, up to its closing
\* quote and no earlier.
C27_LiteralDenotesValue ==
  [][ Embedded =>
        LET s == last'.req.value
            literal == last'.result.literal
            read == last'.result.read
        IN /\ Paired(sanitizePSString(s))
           /\ Unpair(sanitizePSString(s)) = s
           /\ read.closed /\ read.value = s /\ read.rest = << >> ]_vars
\* the part that holds: the pairing and the way back
PairsRoundTrip ==
  [][ Embedded =>
        LET s == last'.req.value IN
        Paired(sanitizePSString(s)) /\ Unpair(sanitizePSString(s)) = s ]_vars

\* ---- workflow steps
StepsOf(doc) == [i \in 1..Len(doc.workflowSteps) |-> doc.workflowSteps[i].step]

\* C28: create without a commonName stores nothing; create with one stores a
\* draft without csrPEM whose steps "Generate CSR", "Submit to CA" and
\* "Install Certificate" are all pending; every stored CSR has exactly these
\* three steps in this order, whatever operation ran.
C28_ThreeStepsAlways ==
  [][ /\ csr' # << >> =>
           StepsOf(csr'[1]) = << "Generate CSR", "Submit to CA", "Install Certificate" >>
      /\ last'.op = "create" =>
           /\ ~("commonName" \in DOMAIN last'.req /\ Truthy(last'.req.commonName))
                => (csr' = << >> /\ last'.code = 400)
           /\ csr' # << >> =>
                /\ last'.code = 201
                /\ csr'[1].status = "draft"
                /\ csr'[1].csrPEM = NoText
                /\ \A i \in 1..3 : csr'[1].workflowSteps[i].status = "pending" ]_vars
C28_Witness ==
  /\ last.op = "submit"
  /\ last.code = 200
  /\ Exists
  /\ StepStatuses(Doc) = << "completed", "completed", "pending" >>

\* ---- notification settings
Unconfigured ==
  \/ settings = << >>
  \/ ~settings[1].enabled
  \/ \A i \in 1..Len(settings[1].thresholds) : ~settings[1].thresholds[i].enabled
  \/ resolveRecipients(settings[1].recipients) = << >>

\* C29: when the notification settings are absent or disabled, have no enabled
\* threshold or resolve to no recipient, a dispatch sends no email, appends no
\* notificationsSent entry and returns sent = 0 and failed = 0.
C29_UnconfiguredDispatchIsNoOp ==
  [][ (last'.op = "dispatch" /\ Unconfigured) =>
        /\ outbox' = outbox
        /\ certs' = certs
        /\ last'.result.sent = 0
        /\ last'.result.failed = 0 ]_vars
C29_Witness ==
  /\ last.op = "dispatch"
  /\ settings # << >>
  /\ settings[1].enabled
  /\ EnabledThresholds(settings[1]) # << >>
  /\ settings[1].recipients # << >>
  /\ resolveRecipients(settings[1].recipients) = << >>
  /\ \E sn \in DOMAIN certs :
       findCertificatesExpiringInDays(certs, last.req.now, 30) # << >>
  /\ outbox = << >>
  /\ last.result.sent = 0

\* ---- refresh tokens
Refreshed == last'.op = "refresh" /\ clock' = clock
Refused(token) ==
  /\ last'.code = 401
  /\ DOMAIN auth'.tokens \subseteq DOMAIN auth.tokens
  /\ \A t \in DOMAIN auth'.tokens :
       auth'.tokens[t].userId = token[1] => auth'.tokens[t].revoked

\* C30: once a refresh call has exchanged token T, every later refresh call
\* that presents T is answered 401, issues no token and leaves every refresh
\* token of T's user revoked.
C30_ReuseRevokesAll ==
  [][ (Refreshed /\ last'.req.token \in auth.exchanged)
        => Refused(last'.req.token) ]_vars
\* the part that holds: reuse of a token the collection still holds
StoredReuseRevokesAll ==
  [][ (Refreshed /\ last'.req.token \in auth.exchanged
         /\ last'.req.token \in DOMAIN auth.tokens)
        => Refused(last'.req.token) ]_vars

\* C31: after a logout of a user was answered "Logged out successfully", a
\* refresh call presenting a refresh token issued to that user before the
\* logout is answered 401.
C31_LogoutInvalidatesTokens ==
  [][ (Refreshed /\ last'.req.token \in auth.loggedOut) => last'.code = 401 ]_vars
\* the part that holds: a token that a logout revoked is refused
RevokedTokensRefused ==
  [][ (Refreshed /\ last'.req.token \in auth.loggedOut
         /\ auth.tokens[last'.req.token].revoked) => last'.code = 401 ]_vars

\* C32: within one dispatch the send attempts follow the thresholds in
\* descending order of day count: no attempt for a threshold of fewer days
\* precedes an attempt for one of more days, whatever the order of the
\* thresholds in the settings document.
C32_ThresholdsDescending ==
  [][ (last'.op = "dispatch" /\ clock' = clock) =>
        LET order == last'.result.order IN
        \A i, j \in 1..Len(order) : i < j => order[i][2] >= order[j][2] ]_vars
\* a dispatch that made attempts for two thresholds the document lists in
\* ascending order
C32_Witness ==
  /\ last.op = "dispatch"
  /\ Len(last.result.order) = 2
  /\ last.result.order[1][2] = 45 /\ last.result.order[2][2] = 30
  /\ \E i, j \in 1..Len(settings[1].thresholds) :
        /\ i < j
        /\ settings[1].thresholds[i].days = 30 /\ settings[1].thresholds[j].days = 45

\* C33: a generate or submit call rejected because an input fails validation
\* (subject field, SAN, hash algorithm, key size, target-server hostname, CA
\* config string, template name) leaves the CSR's status, errorMessage and
\* workflow steps as they were.
GenerateValidationErrors ==
  { "Invalid common name: contains disallowed characters", "Invalid hash algorithm",
    "Invalid key size", "Invalid subject field", "Invalid SAN",
    "Invalid target server hostname" }
SubmitValidationErrors == { Lit("Invalid CA config string"), Lit("Invalid template name") }
ValidationRejected ==
  \/ last'.op = "generate" /\ last'.code = 400 /\ last'.error \in GenerateValidationErrors
  \/ last'.op = "submit" /\ last'.result.called /\ ~last'.result.success
       /\ last'.result.error \in SubmitValidationErrors
Workflow(doc) ==
  [status |-> doc.status, errorMessage |-> doc.errorMessage, workflowSteps |-> doc.workflowSteps]
C33_ValidationRejectionChangesNothing ==
  [][ (Exists /\ ValidationRejected) => Workflow(NextDoc) = Workflow(Doc) ]_vars
\* the part that holds: the checks made before the first save
EarlyRejectionChangesNothing ==
  [][ (Exists /\ last'.op = "generate" /\ last'.code = 400
         /\ last'.error \in GenerateValidationErrors \ {"Invalid target server hostname"})
        => csr' = csr ]_vars

\* C34: once the reconciler has run at the instant now, the status of every
\* certificate that is not revoked is determined by validTo and now alone:
\* expired when validTo < now, expiring when now <= validTo <= now + 30 days,
\* active when validTo > now + 30 days, whatever the status was before.
StatusFor(validTo, now) ==
  IF validTo < now THEN "expired"
  ELSE IF validTo <= now + ExpiringDays * Day THEN "expiring"
  ELSE "active"
C34_StatusFollowsValidTo ==
  last.op = "reconcile" =>
    \A sn \in DOMAIN certs :
      certs[sn].status # "revoked"
        => certs[sn].status = StatusFor(certs[sn].validTo, last.req.now)
\* the part that holds: certificates the reconciler found active or expiring
UnexpiredStatusFollowsValidTo ==
  [][ Reconciled =>
        \A sn \in Kept :
          certs[sn].status \in {"active", "expiring"}
            => certs'[sn].status = StatusFor(certs[sn].validTo, clock) ]_vars

\* C35: when two dispatch runs overlap, no certificate holds two
\* notificationsSent entries of the same type and no pair of certificate and
\* threshold is emailed twice.
NoDuplicateNotice ==
  /\ \A sn \in DOMAIN certs :
       LET sent == certs[sn].notificationsSent IN
       \A i, j \in 1..Len(sent) : i < j => sent[i].type # sent[j].type
  /\ \A i, j \in 1..Len(outbox) : i < j => outbox[i] # outbox[j]
C35_OverlapSendsOnce == NoDuplicateNotice
\* the part that holds: runs that do not overlap, the second one loading the
\* certificate after the first has saved it
Loaded(r) == r.doc # << >> /\ AlreadySent(r.doc[1], 30)
SequentialRunsSendOnce ==
  (\/ run.manual.pc = "idle" \/ run.disp.pc = "idle"
   \/ Loaded(run.manual) \/ Loaded(run.disp)) => NoDuplicateNotice

\* C36: in no interleaving of a delete call with a submit call on the same
\* CSR is the CSR removed once its stored status is submitted.
C36_SubmittedNeverRemoved ==
  [][ (Exists /\ Doc.status = "submitted") => csr' # << >> ]_vars
\* the part that holds: a delete call that loads the CSR after submit has
\* saved the status is answered 400 and removes nothing
LateDeleteRefused ==
  [][ (Exists /\ Doc.status = "submitted" /\ run.del.pc = "idle" /\ run'.del.pc # "idle")
        => (run'.del.pc = "done" /\ last'.code = 400 /\ csr' = csr) ]_vars

\* C37: of two concurrent refresh calls that present the same valid,
\* unrevoked token at most one is answered with new tokens.
BothExchanged ==
  /\ run.ref[1].ok /\ run.ref[2].ok
  /\ run.ref[1].token = run.ref[2].token
C37_ExchangedAtMostOnce == ~BothExchanged
\* the part that holds: two calls whose create falls into the same second
\* (the new token has the same text and the unique index refuses the second),
\* and a call that loads the token after the other has saved it as revoked
SameSecondExchangedOnce == BothExchanged => run.ref[1].at # run.ref[2].at
LateRefreshRefused ==
  [][ \A p \in {1, 2} :
        (run.ref[p].pc = "idle" /\ run'.ref[p].pc # "idle"
           /\ auth.tokens[run'.ref[p].token].revoked)
          => (run'.ref[p].pc = "done" /\ last'.code = 401) ]_vars

\* C38: when a dispatch returns, every pair of certificate and threshold for
\* which the transport accepted a message in that dispatch has a
\* notificationsSent entry of the threshold's type.
C38_EverySentMailRecorded ==
  [][ Dispatched =>
        \A p \in Pairs :
          MailsFor(outbox', p[1], p[2]) > MailsFor(outbox, p[1], p[2])
            => AlreadySent(certs'[p[1]], p[2]) ]_vars
\* the part that holds: thresholds whose type the schema lists
ListedThresholdRecorded ==
  [][ Dispatched =>
        \A p \in Pairs :
          (/\ MailsFor(outbox', p[1], p[2]) > MailsFor(outbox, p[1], p[2])
           /\ TypeOf(p[2]) \in NotificationTypeEnum)
            => AlreadySent(certs'[p[1]], p[2]) ]_vars

\* C39: once stopScheduler has returned no scheduled task is left, whatever
\* sequence of initializeScheduler and stopScheduler calls came before, and at
\* every time at most one notification task and one sync task are scheduled.
C39_SchedulerHoldsOneJobEach ==
  /\ last.op = "stopScheduler" => run.sched.active = {}
  /\ Cardinality(ActiveJobs("notification")) <= 1
  /\ Cardinality(ActiveJobs("sync")) <= 1
\* the part that holds: stopScheduler stops the tasks of the latest
\* initializeScheduler call and clears both variables
LatestJobsStopped ==
  last.op = "stopScheduler" =>
    /\ run.sched.notificationJob = << >> /\ run.sched.syncJob = << >>
    /\ \A job \in run.sched.active : job[2] < run.sched.inits

====
